---------------------------- MODULE Spec2Model ----------------------------
(***************************************************************************)
(* A model of the Dockerfile lexer (internal/lexer/lexer.go) and of the    *)
(* instruction parser (internal/parser/instructions.go).                   *)
(*                                                                         *)
(* The lexer pulls its tokens from Scanner.Scan.  The scanner's stream is  *)
(* the variable input: the sequence of results Scan returns, one per call, *)
(* each a token or a scan error; after the last one Scan returns io.EOF.   *)
(* The loops of the lexer advance one iteration per step, the position in  *)
(* the code being pc.                                                      *)
(***************************************************************************)
EXTENDS Integers, Sequences, FiniteSets, TLC

VARIABLES
    input,            \* what Scanner.Scan returns, call after call
    l,                \* the Lexer object (its fields)
    pc,               \* position in the running lexer operation
    continuationMode, \* TokenizeLine's local
    instructions,     \* ProcessAllInstructions' local (its first result)
    delivered,        \* history: the tokens NextToken has returned
    lineStart,        \* history: Len(delivered) when TokenizeLine was entered
    iterStart,        \* history: Len(delivered) at the head of the current loop iteration
    tokens,           \* the InstructionTokens handed to ParseInstruction
    result,           \* what ParseInstruction returned
    caller,           \* the operations waiting for ProcessAllInstructions, innermost first
    stages,           \* what DetectStages returned
    variables,        \* what DetectVariables returned
    sc,               \* the Scanner inside scanHeredocContent (its fields)
    scanned           \* what scanHeredocContent returned

vars == <<input, l, pc, continuationMode, instructions, delivered,
          lineStart, iterStart, tokens, result, caller, stages, variables,
          sc, scanned>>

(***************************************************************************)
(* Bounds of the model.                                                    *)
(***************************************************************************)
MaxLen == 4
MaxArgs == 3
MaxHealthcheckArgs == 4
MaxLines == 3
MaxChars == 4
MaxPeek == 3
MaxPieces == 3
MaxInstructions == 2
MaxRounds == 2

(***************************************************************************)
(* Strings (Go's strings package), on TLA+ strings.                        *)
(***************************************************************************)
CharAt(str, i) == SubSeq(str, i, i)

HasPrefix(str, prefix) ==
    /\ Len(str) >= Len(prefix)
    /\ SubSeq(str, 1, Len(prefix)) = prefix

TrimPrefix(str, prefix) ==
    IF HasPrefix(str, prefix) THEN SubSeq(str, Len(prefix) + 1, Len(str)) ELSE str

RECURSIVE Join(_, _)
Join(elems, sep) ==
    IF Len(elems) = 0 THEN ""
    ELSE IF Len(elems) = 1 THEN elems[1]
    ELSE elems[1] \o sep \o Join(Tail(elems), sep)

\* strings.Contains / strings.Split for a one-character separator.
RECURSIVE Contains(_, _)
Contains(str, c) ==
    IF Len(str) = 0 THEN FALSE
    ELSE CharAt(str, 1) = c \/ Contains(SubSeq(str, 2, Len(str)), c)

RECURSIVE SplitFrom(_, _, _, _)
SplitFrom(str, c, i, part) ==
    IF i > Len(str) THEN <<part>>
    ELSE IF CharAt(str, i) = c THEN <<part>> \o SplitFrom(str, c, i + 1, "")
    ELSE SplitFrom(str, c, i + 1, part \o CharAt(str, i))

Split(str, c) == SplitFrom(str, c, 1, "")

Digits == {"0", "1", "2", "3", "4", "5", "6", "7", "8", "9"}

\* strconv.Atoi succeeds: an optional sign and at least one decimal digit.
\* Numerals of up to 18 digits fit an int; the model holds no longer one.
AtoiOk(str) ==
    LET body == IF Len(str) > 0 /\ CharAt(str, 1) \in {"+", "-"}
                THEN SubSeq(str, 2, Len(str)) ELSE str
    IN  /\ Len(body) > 0
        /\ Len(body) <= 18
        /\ \A i \in 1..Len(body) : CharAt(body, i) \in Digits

\* strings.TrimSpace.
Space == {" ", "\t", "\n", "\r"}

RECURSIVE TrimLeft(_)
TrimLeft(str) ==
    IF Len(str) > 0 /\ CharAt(str, 1) \in Space THEN TrimLeft(SubSeq(str, 2, Len(str)))
    ELSE str

RECURSIVE TrimRight(_)
TrimRight(str) ==
    IF Len(str) > 0 /\ CharAt(str, Len(str)) \in Space
    THEN TrimRight(SubSeq(str, 1, Len(str) - 1))
    ELSE str

TrimSpace(str) == TrimRight(TrimLeft(str))

(***************************************************************************)
(* Tokens.  TokenTypes lists the token types in the order of the iota      *)
(* block, so that IsInstruction is the range test of the code.             *)
(***************************************************************************)
TokenTypes ==
    << "TOKEN_ILLEGAL", "TOKEN_EOF", "TOKEN_NEWLINE", "TOKEN_WHITESPACE",
       "TOKEN_INSTRUCTION_FROM", "TOKEN_INSTRUCTION_RUN", "TOKEN_INSTRUCTION_CMD",
       "TOKEN_INSTRUCTION_LABEL", "TOKEN_INSTRUCTION_MAINTAINER",
       "TOKEN_INSTRUCTION_EXPOSE", "TOKEN_INSTRUCTION_ENV", "TOKEN_INSTRUCTION_ADD",
       "TOKEN_INSTRUCTION_COPY", "TOKEN_INSTRUCTION_ENTRYPOINT",
       "TOKEN_INSTRUCTION_VOLUME", "TOKEN_INSTRUCTION_USER",
       "TOKEN_INSTRUCTION_WORKDIR", "TOKEN_INSTRUCTION_ARG",
       "TOKEN_INSTRUCTION_ONBUILD", "TOKEN_INSTRUCTION_STOPSIGNAL",
       "TOKEN_INSTRUCTION_HEALTHCHECK", "TOKEN_INSTRUCTION_SHELL",
       "TOKEN_COMMENT", "TOKEN_CONTINUATION", "TOKEN_ESCAPEDCHAR",
       "TOKEN_HEREDOC_START", "TOKEN_HEREDOC_END",
       "TOKEN_STRING", "TOKEN_QUOTED_STRING", "TOKEN_NUMBER", "TOKEN_EQUALS",
       "TOKEN_COLON", "TOKEN_COMMA", "TOKEN_LBRACKET", "TOKEN_RBRACKET",
       "TOKEN_VARIABLE", "TOKEN_AS", "TOKEN_STAGE_NAME" >>

TypeOrd(type) == CHOOSE i \in 1..Len(TokenTypes) : TokenTypes[i] = type

Token(type, value, raw, line, column) ==
    [Type |-> type, Value |-> value, Raw |-> raw, Line |-> line, Column |-> column]

\* A nil *Token.
NoToken == Token("nil", "", "", 0, 0)

\* &Token{Type: TOKEN_EOF}
EOFToken == Token("TOKEN_EOF", "", "", 0, 0)

IsInstructionType(type) ==
    /\ type \in {TokenTypes[i] : i \in 1..Len(TokenTypes)}
    /\ TypeOrd(type) >= TypeOrd("TOKEN_INSTRUCTION_FROM")
    /\ TypeOrd(type) <= TypeOrd("TOKEN_INSTRUCTION_SHELL")

IsInstruction(t) == IsInstructionType(t.Type)

(***************************************************************************)
(* Errors.  A DockerfileError with its code, message, position and         *)
(* snippet; nil and io.EOF are two more values of the same shape.          *)
(***************************************************************************)
DockerfileError(code, message, line, column, snippet) ==
    [Code |-> code, Message |-> message, Line |-> line, Column |-> column,
     Snippet |-> snippet]

\* The codes of a DockerfileError.
ErrorCodes ==
    {"CodeSyntaxError", "CodeValidationError", "CodeReferenceError",
     "CodeInstructionError", "CodeStageError", "CodeVariableError", "CodeIOError",
     "CodeInternalError"}

NoError == DockerfileError("nil", "", 0, 0, "")
EOFError == DockerfileError("io.EOF", "EOF", 0, 0, "")

(***************************************************************************)
(* The scanner.  Scan's dispatch is not part of the sources at hand: a     *)
(* call returns the next element of input, a token with its position or a *)
(* positioned syntax error, and io.EOF once the input is used up.          *)
(***************************************************************************)
Lexeme(type, value) == [Type |-> type, Value |-> value]

\* The element of input that stands for a failing Scan call.
ScanFailure == Lexeme("ERR", "?")

NewlinesBefore(i) == Cardinality({j \in 1..(i - 1) : input[j].Type = "TOKEN_NEWLINE"})

LastNewlineBefore(i) ==
    LET nls == {j \in 1..(i - 1) : input[j].Type = "TOKEN_NEWLINE"}
    IN  IF nls = {} THEN 0 ELSE CHOOSE j \in nls : \A k \in nls : k <= j

LineOf(i) == 1 + NewlinesBefore(i)
ColumnOf(i) == i - LastNewlineBefore(i)

TokenAt(i) == Token(input[i].Type, input[i].Value, input[i].Value, LineOf(i), ColumnOf(i))

ScanError(i) ==
    DockerfileError("CodeSyntaxError", "scan error", LineOf(i), ColumnOf(i), input[i].Value)

NewScanner == [pos |-> 0]

Scan(s) ==
    IF s.pos >= Len(input)
    THEN [token |-> NoToken, err |-> EOFError, scanner |-> s]
    ELSE LET i == s.pos + 1
         IN  IF input[i] = ScanFailure
             THEN [token |-> NoToken, err |-> ScanError(i), scanner |-> [pos |-> i]]
             ELSE [token |-> TokenAt(i), err |-> NoError, scanner |-> [pos |-> i]]

(***************************************************************************)
(* Lexer.nextToken, NextToken, PeekToken, NewLexer.                        *)
(***************************************************************************)
\* The error path of nextToken: record a non-EOF error, peek becomes EOF.
ScanFailed(lx, r) ==
    [lx EXCEPT !.scanner = r.scanner,
               !.errors = IF r.err # EOFError THEN Append(@, r.err) ELSE @,
               !.peekToken = EOFToken]

\* The tail of nextToken, once a token has been scanned.
Accept(lx, r) ==
    LET token == r.token
        h == IF token.Type = "TOKEN_HEREDOC_START"
             THEN [inHeredoc |-> TRUE, heredocID |-> token.Value]
             ELSE IF /\ lx.inHeredoc
                     /\ token.Type = "TOKEN_HEREDOC_END"
                     /\ token.Value = lx.heredocID
                  THEN [inHeredoc |-> FALSE, heredocID |-> lx.heredocID]
                  ELSE [inHeredoc |-> lx.inHeredoc, heredocID |-> lx.heredocID]
    IN  [lx EXCEPT !.scanner = r.scanner,
                   !.inHeredoc = h.inHeredoc,
                   !.heredocID = h.heredocID,
                   !.tokens = Append(@, token),
                   !.peekToken = token]

nextToken(lx) ==
    LET l1 == [lx EXCEPT !.currentToken = lx.peekToken]
        r1 == Scan(l1.scanner)
    IN  IF r1.err # NoError THEN ScanFailed(l1, r1)
        ELSE IF ~l1.inHeredoc /\ r1.token.Type = "TOKEN_WHITESPACE"
             THEN LET r2 == Scan(r1.scanner)
                  IN  IF r2.err # NoError THEN ScanFailed(l1, r2)
                      ELSE Accept(l1, r2)
             ELSE Accept(l1, r1)

\* NextToken returns the current token and advances.
NextToken(lx) == [token |-> lx.currentToken, l |-> nextToken(lx)]

PeekToken(lx) == lx.peekToken

NewLexer ==
    nextToken(nextToken(
        [scanner |-> NewScanner, currentToken |-> NoToken, peekToken |-> NoToken,
         tokens |-> <<>>, errors |-> <<>>, inHeredoc |-> FALSE, heredocID |-> "",
         lineTokens |-> <<>>]))

(***************************************************************************)
(* encoding/json: Unmarshal of a text into a []string.  The text must be   *)
(* one JSON value with nothing after it: null, or an array whose elements  *)
(* are strings or null (null leaves the element empty).  Any other element *)
(* is a syntax or a type error.  String escapes handled: \" \\ \/ \n \t \r *)
(* \f; the inputs of the model hold no \b and no \u escape.                *)
(***************************************************************************)
JSONSpace == {" ", "\t", "\n", "\r"}

\* The first position from i on that holds no JSON white space.
SkipSpace(str, i) ==
    LET stops == {j \in i..(Len(str) + 1) : j = Len(str) + 1 \/ CharAt(str, j) \notin JSONSpace}
    IN  CHOOSE j \in stops : \A k \in stops : j <= k

IsAt(str, i, word) ==
    /\ i + Len(word) - 1 <= Len(str)
    /\ SubSeq(str, i, i + Len(word) - 1) = word

Unescape(c) ==
    CASE c = "n" -> "\n"
      [] c = "t" -> "\t"
      [] c = "r" -> "\r"
      [] c = "f" -> "\f"
      [] OTHER -> c

JSONFail == [ok |-> FALSE, val |-> "", vals |-> <<>>, next |-> 0]

\* The string whose opening quote is before position i; acc is its value so far.
RECURSIVE JSONString(_, _, _)
JSONString(str, i, acc) ==
    IF i > Len(str) THEN JSONFail
    ELSE LET c == CharAt(str, i)
         IN  IF c = "\"" THEN [ok |-> TRUE, val |-> acc, vals |-> <<>>, next |-> i + 1]
             ELSE IF c = "\\"
             THEN IF i + 1 > Len(str) THEN JSONFail
                  ELSE IF CharAt(str, i + 1) \in {"\"", "\\", "/", "n", "t", "r", "f"}
                  THEN JSONString(str, i + 2, acc \o Unescape(CharAt(str, i + 1)))
                  ELSE JSONFail
             ELSE IF c \in {"\n", "\t", "\r", "\f"} THEN JSONFail
             ELSE JSONString(str, i + 1, acc \o c)

\* The elements of an array from position i (the start of an element) on.
RECURSIVE JSONElements(_, _, _)
JSONElements(str, i, acc) ==
    LET elem == IF IsAt(str, i, "\"") THEN JSONString(str, i + 1, "")
                ELSE IF IsAt(str, i, "null")
                THEN [ok |-> TRUE, val |-> "", vals |-> <<>>, next |-> i + 4]
                ELSE JSONFail
    IN  IF ~elem.ok THEN JSONFail
        ELSE LET k == SkipSpace(str, elem.next)
             IN  IF IsAt(str, k, ",")
                 THEN JSONElements(str, SkipSpace(str, k + 1), Append(acc, elem.val))
                 ELSE IF IsAt(str, k, "]")
                 THEN [ok |-> TRUE, val |-> "", vals |-> Append(acc, elem.val), next |-> k + 1]
                 ELSE JSONFail

\* json.Unmarshal([]byte(str), &args): ok is err == nil, vals is args.
UnmarshalStrings(str) ==
    LET i == SkipSpace(str, 1)
        v == IF IsAt(str, i, "null")
             THEN [ok |-> TRUE, val |-> "", vals |-> <<>>, next |-> i + 4]
             ELSE IF IsAt(str, i, "[")
             THEN LET j == SkipSpace(str, i + 1)
                  IN  IF IsAt(str, j, "]")
                      THEN [ok |-> TRUE, val |-> "", vals |-> <<>>, next |-> j + 1]
                      ELSE JSONElements(str, j, <<>>)
             ELSE JSONFail
    IN  IF v.ok /\ SkipSpace(str, v.next) = Len(str) + 1
        THEN [ok |-> TRUE, vals |-> v.vals]
        ELSE [ok |-> FALSE, vals |-> <<>>]

(***************************************************************************)
(* InstructionTokens and the instruction parser.                           *)
(***************************************************************************)
NotWhitespace(t) == t.Type # "TOKEN_WHITESPACE"

ValuesOf(toks) == [i \in 1..Len(toks) |-> toks[i].Value]

GetInstructionValue(it) == IF it.Instruction = NoToken THEN "" ELSE it.Instruction.Value

GetArgumentsAsString(it) == Join(ValuesOf(SelectSeq(it.Arguments, NotWhitespace)), " ")

NoFlags == [k \in {} |-> ""]

SetFlag(flags, key, value) ==
    [k \in (DOMAIN flags) \cup {key} |-> IF k = key THEN value ELSE flags[k]]

NoHeredoc == [Identifier |-> "", Content |-> "", Delimiter |-> "", Set |-> FALSE]

\* The Instruction ParseInstruction builds before it dispatches on the command.
NewInstruction(it, stage) ==
    [Command |-> GetInstructionValue(it),
     Raw |-> GetArgumentsAsString(it),
     Args |-> <<>>,
     Flags |-> NoFlags,
     Stage |-> stage,
     Start |-> [Line |-> it.Instruction.Line, Column |-> it.Instruction.Column],
     JSONForm |-> it.JSONForm,
     Heredoc |-> NoHeredoc,
     Dependencies |-> <<>>]

\* A nil *Instruction.
NilInstruction ==
    [Command |-> "nil", Raw |-> "", Args |-> <<>>, Flags |-> NoFlags, Stage |-> 0,
     Start |-> [Line |-> 0, Column |-> 0], JSONForm |-> FALSE, Heredoc |-> NoHeredoc,
     Dependencies |-> <<>>]

InstructionError(inst, message) ==
    DockerfileError("CodeInstructionError", message, inst.Start.Line, inst.Start.Column, "")

Fail(err) == [inst |-> NilInstruction, err |-> err]
Done(inst) == [inst |-> inst, err |-> NoError]

\* strings.SplitN(part, "=", 2) of a part that holds an =.
SplitKeyValue(part) ==
    LET parts == Split(part, "=")
    IN  <<parts[1], Join(Tail(parts), "=")>>

\* The orders in which a range over a map may visit its keys.
KeyOrders(m) ==
    {order \in [1..Cardinality(DOMAIN m) -> DOMAIN m] :
        \A i, j \in DOMAIN order : order[i] = order[j] => i = j}

\* The positions of an AS token that has a successor.
AsPositions(args) ==
    {i \in 1..(Len(args) - 1) : args[i].Type = "TOKEN_AS"}

\* The positions of a --platform= flag.
PlatformPositions(args) ==
    {i \in 1..Len(args) :
        args[i].Type = "TOKEN_STRING" /\ HasPrefix(args[i].Value, "--platform=")}

\* The positions of a string token that is no flag.
ImagePositions(args) ==
    {i \in 1..Len(args) :
        args[i].Type = "TOKEN_STRING" /\ ~HasPrefix(args[i].Value, "--")}

Least(S) == CHOOSE i \in S : \A j \in S : i <= j

parseFromInstruction(it, inst) ==
    LET args == it.Arguments
        withStage == IF AsPositions(args) = {} THEN inst.Flags
                     ELSE SetFlag(inst.Flags, "stage", args[Least(AsPositions(args)) + 1].Value)
        withPlatform ==
            IF PlatformPositions(args) = {} THEN withStage
            ELSE SetFlag(withStage, "platform",
                         TrimPrefix(args[Least(PlatformPositions(args))].Value, "--platform="))
    IN  IF Len(args) = 0
        THEN Fail(InstructionError(inst, "FROM instruction requires a base image"))
        ELSE Done([inst EXCEPT
                      !.Flags = withPlatform,
                      !.Args = IF ImagePositions(args) = {} THEN @
                               ELSE Append(@, args[Least(ImagePositions(args))].Value)])

\* The loop of parseKeyValuePairs from character i on; st holds the locals.
RECURSIVE KeyValueScan(_, _, _)
KeyValueScan(str, i, st) ==
    IF i > Len(str) THEN st
    ELSE LET ch == CharAt(str, i)
             add == IF st.isKey THEN [st EXCEPT !.key = @ \o ch]
                    ELSE [st EXCEPT !.value = @ \o ch]
             next ==
                 IF st.escaped THEN [add EXCEPT !.escaped = FALSE]
                 ELSE IF ch = "\\" THEN [st EXCEPT !.escaped = TRUE]
                 ELSE IF ch \in {"\"", "'"}
                 THEN IF st.inQuote /\ ch = st.quoteChar THEN [st EXCEPT !.inQuote = FALSE]
                      ELSE IF ~st.inQuote THEN [st EXCEPT !.inQuote = TRUE, !.quoteChar = ch]
                      ELSE add
                 ELSE IF ch = "="
                 THEN IF ~st.inQuote /\ st.isKey THEN [st EXCEPT !.isKey = FALSE]
                      ELSE add
                 ELSE IF ch \in {" ", "\t"}
                 THEN IF st.inQuote THEN add
                      ELSE IF ~st.isKey /\ st.value # ""
                      THEN [st EXCEPT !.result = SetFlag(@, st.key, st.value),
                                      !.key = "", !.value = "", !.isKey = TRUE]
                      ELSE st
                 ELSE add
         IN  KeyValueScan(str, i + 1, next)

parseKeyValuePairs(str) ==
    LET st == KeyValueScan(str, 1,
                  [result |-> NoFlags, key |-> "", value |-> "", inQuote |-> FALSE,
                   quoteChar |-> " ", isKey |-> TRUE, escaped |-> FALSE])
    IN  IF st.key # "" THEN SetFlag(st.result, st.key, st.value) ELSE st.result

\* The Args a range over the pairs appends, the keys visited in the order.
PairArgs(pairs, order) == [i \in 1..Len(order) |-> order[i] \o "=" \o pairs[order[i]]]

parseLabelInstruction(it, inst, order) ==
    LET args == GetArgumentsAsString(it)
    IN  IF args = ""
        THEN Fail(InstructionError(inst,
                 "LABEL instruction requires at least one key-value pair"))
        ELSE Done([inst EXCEPT !.Args = @ \o PairArgs(parseKeyValuePairs(args), order)])

parseEnvInstruction(it, inst, order) ==
    LET args == GetArgumentsAsString(it)
    IN  IF args = ""
        THEN Fail(InstructionError(inst, "ENV instruction requires at least one variable"))
        ELSE Done([inst EXCEPT !.Args = @ \o PairArgs(parseKeyValuePairs(args), order)])

parseArgInstruction(it, inst) ==
    LET args == GetArgumentsAsString(it)
        parts == IF Contains(args, "=") THEN SplitKeyValue(args) ELSE <<args>>
    IN  IF args = ""
        THEN Fail(InstructionError(inst, "ARG instruction requires a name"))
        ELSE Done([inst EXCEPT
                      !.Args = <<TrimSpace(parts[1])>>,
                      !.Flags = IF Len(parts) > 1 THEN SetFlag(@, "default", parts[2])
                                ELSE @])

parseStopsignalInstruction(it, inst) ==
    LET args == GetArgumentsAsString(it)
        signal == TrimSpace(args)
    IN  IF args = ""
        THEN Fail(InstructionError(inst, "STOPSIGNAL instruction requires a signal"))
        ELSE IF ~AtoiOk(signal) /\ ~HasPrefix(signal, "SIG")
        THEN Fail(InstructionError(inst, "Invalid signal format: " \o signal))
        ELSE Done([inst EXCEPT !.Args = <<signal>>])

\* parseJSONArrayForm reporting a decode failure as an instruction error.
parseJSONArrayFormAsInstructionError(it, inst) ==
    LET args == SelectSeq(it.Arguments, NotWhitespace)
        jsonStr == IF Len(args) = 0 THEN "" ELSE args[1].Raw
        dec == UnmarshalStrings(jsonStr)
    IN  IF jsonStr = "" THEN Fail(InstructionError(inst, "Missing JSON array argument"))
        ELSE IF ~dec.ok THEN Fail(InstructionError(inst, "Invalid JSON array"))
        ELSE Done([inst EXCEPT !.Args = dec.vals, !.JSONForm = TRUE])

parseJSONArrayForm(it, inst) ==
    LET args == SelectSeq(it.Arguments, NotWhitespace)
        jsonStr == IF Len(args) = 0 THEN "" ELSE args[1].Raw
        dec == UnmarshalStrings(jsonStr)
    IN  IF jsonStr = "" THEN Fail(InstructionError(inst, "Missing JSON array argument"))
        ELSE IF ~dec.ok
        THEN Fail(DockerfileError("CodeSyntaxError", "Invalid JSON array",
                                  inst.Start.Line, inst.Start.Column, jsonStr))
        ELSE Done([inst EXCEPT !.Args = dec.vals, !.JSONForm = TRUE])

IsHeredocStart(t) == t.Type = "TOKEN_HEREDOC_START"
IsHeredocContent(t) == t.Type = "TOKEN_HEREDOC_CONTENT"

\* The heredoc parseRunInstruction attaches: the first heredoc start of the
\* line with the first heredoc content, when that content is not empty.
HeredocOf(it) ==
    LET starts == SelectSeq(it.Raw, IsHeredocStart)
        contents == SelectSeq(it.Raw, IsHeredocContent)
    IN  IF Len(starts) = 0 \/ Len(contents) = 0 \/ contents[1].Value = "" THEN NoHeredoc
        ELSE [Identifier |-> starts[1].Value, Content |-> contents[1].Value,
              Delimiter |-> starts[1].Value, Set |-> TRUE]

parseRunInstruction(it, inst) ==
    IF it.JSONForm THEN parseJSONArrayForm(it, inst)
    ELSE LET args == GetArgumentsAsString(it)
         IN  IF args = ""
             THEN Fail(InstructionError(inst, "RUN instruction requires at least one argument"))
             ELSE Done([inst EXCEPT !.Heredoc = HeredocOf(it), !.Args = <<args>>])

parseCmdInstruction(it, inst) ==
    IF it.JSONForm THEN parseJSONArrayForm(it, inst)
    ELSE LET args == GetArgumentsAsString(it)
         IN  IF args = ""
             THEN Fail(InstructionError(inst, "CMD instruction requires at least one argument"))
             ELSE Done([inst EXCEPT !.Args = <<args>>])

parseEntrypointInstruction(it, inst) == parseCmdInstruction(it, inst)

IsFlagToken(t) == t.Type = "TOKEN_STRING" /\ HasPrefix(t.Value, "--")

\* The flag loop of parseAddCopyInstruction, token by token.
RECURSIVE AddCopyFlags(_, _)
AddCopyFlags(toks, acc) ==
    IF Len(toks) = 0 THEN acc
    ELSE LET t == Head(toks)
             next ==
                 IF IsFlagToken(t)
                 THEN IF HasPrefix(t.Value, "--chown=")
                      THEN [acc EXCEPT !.Flags = SetFlag(@, "chown", TrimPrefix(t.Value, "--chown="))]
                      ELSE IF HasPrefix(t.Value, "--from=")
                      THEN [acc EXCEPT
                              !.Flags = SetFlag(@, "from", TrimPrefix(t.Value, "--from=")),
                              !.hasFrom = TRUE,
                              !.Dependencies = Append(@, TrimPrefix(t.Value, "--from="))]
                      ELSE IF HasPrefix(t.Value, "--chmod=")
                      THEN [acc EXCEPT !.Flags = SetFlag(@, "chmod", TrimPrefix(t.Value, "--chmod="))]
                      ELSE acc
                 ELSE IF t.Type # "TOKEN_WHITESPACE"
                 THEN [acc EXCEPT !.args = Append(@, t.Value)]
                 ELSE acc
         IN  AddCopyFlags(Tail(toks), next)

\* parseAddCopyInstruction without the ADD check: ADD treated like COPY.
parseAddCopyInstructionAddLikeCopy(it, inst) ==
    LET r == AddCopyFlags(it.Arguments,
                 [args |-> <<>>, hasFrom |-> FALSE, Flags |-> inst.Flags,
                  Dependencies |-> inst.Dependencies])
    IN  IF Len(r.args) < 2
        THEN Fail(InstructionError(inst,
                 inst.Command \o " instruction requires at least source and destination"))
        ELSE Done([inst EXCEPT !.Args = r.args, !.Flags = r.Flags,
                               !.Dependencies = r.Dependencies])

\* parseAddCopyInstruction content with a single positional argument.
parseAddCopyInstructionOneArgument(it, inst) ==
    LET r == AddCopyFlags(it.Arguments,
                 [args |-> <<>>, hasFrom |-> FALSE, Flags |-> inst.Flags,
                  Dependencies |-> inst.Dependencies])
    IN  IF Len(r.args) < 1
        THEN Fail(InstructionError(inst,
                 inst.Command \o " instruction requires at least source and destination"))
        ELSE IF inst.Command = "ADD" /\ r.hasFrom
        THEN Fail(InstructionError(inst, "ADD does not support the --from flag"))
        ELSE Done([inst EXCEPT !.Args = r.args, !.Flags = r.Flags,
                               !.Dependencies = r.Dependencies])

parseAddCopyInstruction(it, inst) ==
    LET r == AddCopyFlags(it.Arguments,
                 [args |-> <<>>, hasFrom |-> FALSE, Flags |-> inst.Flags,
                  Dependencies |-> inst.Dependencies])
    IN  IF Len(r.args) < 2
        THEN Fail(InstructionError(inst,
                 inst.Command \o " instruction requires at least source and destination"))
        ELSE IF inst.Command = "ADD" /\ r.hasFrom
        THEN Fail(InstructionError(inst, "ADD does not support the --from flag"))
        ELSE Done([inst EXCEPT !.Args = r.args, !.Flags = r.Flags,
                               !.Dependencies = r.Dependencies])

\* The port loop of parseExposeInstruction, token by token.
RECURSIVE ExposePorts(_, _)
ExposePorts(toks, inst) ==
    IF Len(toks) = 0 THEN Done(inst)
    ELSE LET token == Head(toks)
             parts == Split(token.Value, "/")
             hasProtocol == Contains(token.Value, "/")
             port == IF hasProtocol THEN parts[1] ELSE token.Value
             protocol == IF hasProtocol THEN parts[2] ELSE ""
         IN  IF token.Type = "TOKEN_WHITESPACE" THEN ExposePorts(Tail(toks), inst)
             ELSE IF hasProtocol /\ protocol # "tcp" /\ protocol # "udp"
             THEN Fail(DockerfileError("CodeInstructionError",
                          "Invalid protocol: " \o protocol \o ". Must be tcp or udp",
                          token.Line, token.Column, ""))
             ELSE IF ~AtoiOk(port)
             THEN Fail(DockerfileError("CodeInstructionError",
                          "Invalid port number: " \o port, token.Line, token.Column, ""))
             ELSE ExposePorts(Tail(toks),
                              [inst EXCEPT !.Args = Append(@, token.Value)])

parseExposeInstruction(it, inst) ==
    IF Len(it.Arguments) = 0
    THEN Fail(InstructionError(inst, "EXPOSE instruction requires at least one port"))
    ELSE ExposePorts(it.Arguments, inst)

parseVolumeInstruction(it, inst) ==
    IF it.JSONForm THEN parseJSONArrayForm(it, inst)
    ELSE LET args == ValuesOf(SelectSeq(it.Arguments, NotWhitespace))
         IN  IF Len(args) = 0
             THEN Fail(InstructionError(inst, "VOLUME instruction requires at least one argument"))
             ELSE Done([inst EXCEPT !.Args = args])

parseUserInstruction(it, inst) ==
    LET args == GetArgumentsAsString(it)
    IN  IF args = ""
        THEN Fail(InstructionError(inst, "USER instruction requires a username or UID"))
        ELSE Done([inst EXCEPT !.Args = <<args>>])

parseWorkdirInstruction(it, inst) ==
    LET args == GetArgumentsAsString(it)
    IN  IF args = ""
        THEN Fail(InstructionError(inst, "WORKDIR instruction requires a path"))
        ELSE Done([inst EXCEPT !.Args = <<args>>])

\* parseOnbuildInstruction without the FROM check.
parseOnbuildInstructionAllowsFrom(it, inst) ==
    LET args == GetArgumentsAsString(it)
        words == SelectSeq(it.Arguments, NotWhitespace)
        triggerInstruction == IF Len(words) = 0 THEN "" ELSE words[1].Value
    IN  IF args = ""
        THEN Fail(InstructionError(inst,
                 "ONBUILD instruction requires another instruction as argument"))
        ELSE IF triggerInstruction = "ONBUILD"
        THEN Fail(InstructionError(inst, "ONBUILD cannot be nested (ONBUILD ONBUILD ...)"))
        ELSE Done([inst EXCEPT !.Args = <<args>>])

parseOnbuildInstruction(it, inst) ==
    LET args == GetArgumentsAsString(it)
        words == SelectSeq(it.Arguments, NotWhitespace)
        triggerInstruction == IF Len(words) = 0 THEN "" ELSE words[1].Value
    IN  IF args = ""
        THEN Fail(InstructionError(inst,
                 "ONBUILD instruction requires another instruction as argument"))
        ELSE IF triggerInstruction = "ONBUILD"
        THEN Fail(InstructionError(inst, "ONBUILD cannot be nested (ONBUILD ONBUILD ...)"))
        ELSE IF triggerInstruction = "FROM"
        THEN Fail(InstructionError(inst, "ONBUILD cannot trigger FROM instruction"))
        ELSE Done([inst EXCEPT !.Args = <<args>>])

\* The first non-whitespace argument's value, "" when there is none.
FirstArg(it) ==
    LET words == SelectSeq(it.Arguments, NotWhitespace)
    IN  IF Len(words) = 0 THEN "" ELSE words[1].Value

\* cmdArgs of parseHealthcheckInstruction: every non-whitespace value from
\* position j on, each followed by a space.
RECURSIVE CmdArgsFrom(_, _)
CmdArgsFrom(arguments, j) ==
    IF j > Len(arguments) THEN ""
    ELSE IF arguments[j].Type # "TOKEN_WHITESPACE"
    THEN arguments[j].Value \o " " \o CmdArgsFrom(arguments, j + 1)
    ELSE CmdArgsFrom(arguments, j + 1)

\* The flag loop of parseHealthcheckInstruction that does not skip the
\* value of a flag.
RECURSIVE HealthcheckFlagsNoSkip(_, _, _)
HealthcheckFlagsNoSkip(arguments, i, acc) ==
    IF i > Len(arguments) THEN acc
    ELSE LET token == arguments[i]
         IN  IF token.Type = "TOKEN_WHITESPACE"
             THEN HealthcheckFlagsNoSkip(arguments, i + 1, acc)
             ELSE IF HasPrefix(token.Value, "--")
             THEN IF i + 1 <= Len(arguments) /\ arguments[i + 1].Type # "TOKEN_WHITESPACE"
                  THEN HealthcheckFlagsNoSkip(arguments, i + 1,
                           [acc EXCEPT !.Flags = SetFlag(@, TrimPrefix(token.Value, "--"),
                                                         arguments[i + 1].Value)])
                  ELSE HealthcheckFlagsNoSkip(arguments, i + 1, acc)
             ELSE IF token.Value = "CMD"
             THEN [acc EXCEPT !.cmdFound = TRUE,
                              !.args = @ \o <<"CMD", TrimSpace(CmdArgsFrom(arguments, i + 1))>>]
             ELSE HealthcheckFlagsNoSkip(arguments, i + 1,
                      [acc EXCEPT !.args = Append(@, token.Value)])

\* The flag loop of parseHealthcheckInstruction from position i (1-based).
RECURSIVE HealthcheckFlags(_, _, _)
HealthcheckFlags(arguments, i, acc) ==
    IF i > Len(arguments) THEN acc
    ELSE LET token == arguments[i]
         IN  IF token.Type = "TOKEN_WHITESPACE"
             THEN HealthcheckFlags(arguments, i + 1, acc)
             ELSE IF HasPrefix(token.Value, "--")
             THEN IF i + 1 <= Len(arguments) /\ arguments[i + 1].Type # "TOKEN_WHITESPACE"
                  THEN HealthcheckFlags(arguments, i + 2,
                           [acc EXCEPT !.Flags = SetFlag(@, TrimPrefix(token.Value, "--"),
                                                         arguments[i + 1].Value)])
                  ELSE HealthcheckFlags(arguments, i + 1, acc)
             ELSE IF token.Value = "CMD"
             THEN [acc EXCEPT !.cmdFound = TRUE,
                              !.args = @ \o <<"CMD", TrimSpace(CmdArgsFrom(arguments, i + 1))>>]
             ELSE HealthcheckFlags(arguments, i + 1,
                      [acc EXCEPT !.args = Append(@, token.Value)])

parseHealthcheckInstruction(it, inst) ==
    LET firstArg == FirstArg(it)
        r == HealthcheckFlags(it.Arguments, 1,
                 [args |-> <<>>, Flags |-> inst.Flags, cmdFound |-> FALSE])
    IN  IF firstArg = "NONE" THEN Done([inst EXCEPT !.Args = <<"NONE">>])
        ELSE IF ~r.cmdFound /\ firstArg # "NONE"
        THEN Fail(InstructionError(inst, "HEALTHCHECK requires CMD or NONE"))
        ELSE Done([inst EXCEPT !.Args = r.args, !.Flags = r.Flags])

parseShellInstruction(it, inst) ==
    IF ~it.JSONForm
    THEN Fail(InstructionError(inst, "SHELL instruction requires JSON array format"))
    ELSE parseJSONArrayForm(it, inst)

\* The commands that have a case in the switch of ParseInstruction.
ParsedCommands ==
    {"FROM", "RUN", "CMD", "LABEL", "EXPOSE", "ENV", "ADD", "COPY", "ENTRYPOINT",
     "VOLUME", "USER", "WORKDIR", "ARG", "ONBUILD", "STOPSIGNAL", "HEALTHCHECK", "SHELL"}

\* The orders in which LABEL and ENV may range over their pairs; one empty
\* order for every other instruction.
RangeOrders(it) ==
    IF GetInstructionValue(it) \in {"LABEL", "ENV"} /\ GetArgumentsAsString(it) # ""
    THEN KeyOrders(parseKeyValuePairs(GetArgumentsAsString(it)))
    ELSE {<<>>}

\* ParseInstruction; order is the order a range over a map of pairs takes.
ParseInstruction(it, stage, order) ==
    IF it.Instruction = NoToken
    THEN Fail(DockerfileError("errors.New", "invalid instruction", 0, 0, ""))
    ELSE LET command == GetInstructionValue(it)
             instruction == NewInstruction(it, stage)
         IN  CASE command = "FROM" -> parseFromInstruction(it, instruction)
               [] command = "RUN" -> parseRunInstruction(it, instruction)
               [] command = "CMD" -> parseCmdInstruction(it, instruction)
               [] command = "LABEL" -> parseLabelInstruction(it, instruction, order)
               [] command = "EXPOSE" -> parseExposeInstruction(it, instruction)
               [] command = "ENV" -> parseEnvInstruction(it, instruction, order)
               [] command \in {"ADD", "COPY"} -> parseAddCopyInstruction(it, instruction)
               [] command = "ENTRYPOINT" -> parseEntrypointInstruction(it, instruction)
               [] command = "VOLUME" -> parseVolumeInstruction(it, instruction)
               [] command = "USER" -> parseUserInstruction(it, instruction)
               [] command = "WORKDIR" -> parseWorkdirInstruction(it, instruction)
               [] command = "ARG" -> parseArgInstruction(it, instruction)
               [] command = "ONBUILD" -> parseOnbuildInstruction(it, instruction)
               [] command = "STOPSIGNAL" -> parseStopsignalInstruction(it, instruction)
               [] command = "HEALTHCHECK" -> parseHealthcheckInstruction(it, instruction)
               [] command = "SHELL" -> parseShellInstruction(it, instruction)
               [] OTHER -> Fail(DockerfileError("fmt.Errorf",
                                                "unknown instruction: " \o command, 0, 0, ""))

(***************************************************************************)
(* The inputs.                                                             *)
(***************************************************************************)
RUN == Lexeme("TOKEN_INSTRUCTION_RUN", "RUN")
STR == Lexeme("TOKEN_STRING", "a")
CMT == Lexeme("TOKEN_COMMENT", "#c")
NL == Lexeme("TOKEN_NEWLINE", "\n")
CONT == Lexeme("TOKEN_CONTINUATION", "\\")
WS == Lexeme("TOKEN_WHITESPACE", " ")

StreamLexemes == {RUN, STR, CMT, NL, CONT, WS, ScanFailure}

Streams == UNION {[1..n -> StreamLexemes] : n \in 0..MaxLen}

CMD == Lexeme("TOKEN_INSTRUCTION_CMD", "CMD")
ECHO == Lexeme("TOKEN_STRING", "echo")
HI == Lexeme("TOKEN_STRING", "hi")
LBRACKET == Lexeme("TOKEN_LBRACKET", "[")
\* The token scanJSONArray returns for ["a","b c","d"].
JSONABCD == Lexeme("TOKEN_STRING", "[\"a\",\"b c\",\"d\"]")

BoundedSeq(S, n) == UNION {[1..k -> S] : k \in 0..n}

\* One CMD line: the keyword, up to two argument tokens, the newline.
CmdLines ==
    {<<CMD>> \o args \o <<NL>> : args \in BoundedSeq({JSONABCD, ECHO, HI, WS, LBRACKET}, 2)}

Inputs == Streams \cup CmdLines

NoTokens == [Instruction |-> NoToken, Arguments |-> <<>>, Comments |-> <<>>,
             Raw |-> <<>>, JSONForm |-> FALSE]
NoResult == [inst |-> NilInstruction, err |-> NoError]

NoStages == [stages |-> <<>>, err |-> NoError]

\* A Scanner over an empty source, outside a heredoc.
NoScanner ==
    [src |-> "", pos |-> 0, char |-> "", buffer |-> "", peekBuffer |-> "",
     inHeredoc |-> FALSE, heredocWord |-> "", position |-> [Line |-> 1, Column |-> 0],
     variables |-> {}]

NoScanned == [token |-> NoToken, err |-> NoError]

Init ==
    /\ input \in Inputs
    /\ l = NewLexer
    /\ pc = "idle"
    /\ continuationMode = FALSE
    /\ instructions = <<>>
    /\ delivered = <<>>
    /\ lineStart = 0
    /\ iterStart = 0
    /\ tokens = NoTokens
    /\ result = NoResult
    /\ caller = <<>>
    /\ stages = NoStages
    /\ variables = <<>>
    /\ sc = NoScanner
    /\ scanned = NoScanned

(***************************************************************************)
(* The InstructionTokens given to ParseInstruction directly: a command and *)
(* up to MaxArgs argument tokens, in shell form and in JSON form.          *)
(***************************************************************************)
ENTRYPOINT == Lexeme("TOKEN_INSTRUCTION_ENTRYPOINT", "ENTRYPOINT")
VOLUME == Lexeme("TOKEN_INSTRUCTION_VOLUME", "VOLUME")
SHELL == Lexeme("TOKEN_INSTRUCTION_SHELL", "SHELL")
ADD == Lexeme("TOKEN_INSTRUCTION_ADD", "ADD")
COPY == Lexeme("TOKEN_INSTRUCTION_COPY", "COPY")
ONBUILD == Lexeme("TOKEN_INSTRUCTION_ONBUILD", "ONBUILD")
FROM == Lexeme("TOKEN_INSTRUCTION_FROM", "FROM")
EMPTY == Lexeme("TOKEN_STRING", "")
JSONINVALID == Lexeme("TOKEN_STRING", "[invalid json")
JSONESCAPED == Lexeme("TOKEN_STRING", "[ \"a\\\"]\" , null ]")
JSONNUMBER == Lexeme("TOKEN_STRING", "[\"a\",1]")
JSONTRAILING == Lexeme("TOKEN_STRING", "[\"a\"]]")
FROMFLAG == Lexeme("TOKEN_STRING", "--from=builder")
FROMFLAG2 == Lexeme("TOKEN_STRING", "--from=base")
CHOWNFLAG == Lexeme("TOKEN_STRING", "--chown=u")
CHMODFLAG == Lexeme("TOKEN_STRING", "--chmod=7")
LINKFLAG == Lexeme("TOKEN_STRING", "--link")
QUOTEDFLAG == Lexeme("TOKEN_QUOTED_STRING", "--from=q")
SRC == Lexeme("TOKEN_STRING", "/src")
DST == Lexeme("TOKEN_STRING", "/dst")

EXPOSE == Lexeme("TOKEN_INSTRUCTION_EXPOSE", "EXPOSE")
PORT80 == Lexeme("TOKEN_NUMBER", "80")
PORT70000 == Lexeme("TOKEN_NUMBER", "70000")
PORTTCP == Lexeme("TOKEN_STRING", "80/tcp")
PORTUDP == Lexeme("TOKEN_STRING", "53/udp")
PORTSCTP == Lexeme("TOKEN_STRING", "80/sctp")
PORTTCPEXTRA == Lexeme("TOKEN_STRING", "80/tcp/x")
PORTNAME == Lexeme("TOKEN_STRING", "http")
PORTNAMETCP == Lexeme("TOKEN_STRING", "http/tcp")
PORTNOPROTOCOL == Lexeme("TOKEN_STRING", "80/")

HEALTHCHECK == Lexeme("TOKEN_INSTRUCTION_HEALTHCHECK", "HEALTHCHECK")
NONE == Lexeme("TOKEN_STRING", "NONE")
INTERVALFLAG == Lexeme("TOKEN_STRING", "--interval")
RETRIESFLAG == Lexeme("TOKEN_STRING", "--retries")
SECONDS == Lexeme("TOKEN_STRING", "30s")
CURL == Lexeme("TOKEN_STRING", "curl")

MAINTAINER == Lexeme("TOKEN_INSTRUCTION_MAINTAINER", "MAINTAINER")
USER == Lexeme("TOKEN_INSTRUCTION_USER", "USER")
WORKDIR == Lexeme("TOKEN_INSTRUCTION_WORKDIR", "WORKDIR")

AS == Lexeme("TOKEN_AS", "AS")
ARG == Lexeme("TOKEN_INSTRUCTION_ARG", "ARG")
ENV == Lexeme("TOKEN_INSTRUCTION_ENV", "ENV")
BUILDER == Lexeme("TOKEN_STRING", "builder")
KEYVALUE == Lexeme("TOKEN_STRING", "k=v")
KEY == Lexeme("TOKEN_STRING", "j")
PLATFORMFLAG == Lexeme("TOKEN_STRING", "--platform=p")
QUOTEDIMAGE == Lexeme("TOKEN_QUOTED_STRING", "b")

LABEL == Lexeme("TOKEN_INSTRUCTION_LABEL", "LABEL")
PAIRAB == Lexeme("TOKEN_STRING", "a=b")
PAIREMPTY == Lexeme("TOKEN_STRING", "e=")
PAIRQUOTED == Lexeme("TOKEN_STRING", "q=\"x y\"")
PAIRESCAPED == Lexeme("TOKEN_STRING", "r=\"x\\\"=y\"")

STOPSIGNAL == Lexeme("TOKEN_INSTRUCTION_STOPSIGNAL", "STOPSIGNAL")
SIGTERM == Lexeme("TOKEN_STRING", "SIGTERM")
SIGNALNINE == Lexeme("TOKEN_NUMBER", "9")
SIGNALTERM == Lexeme("TOKEN_STRING", "term")

JSONCommands == {RUN, CMD, ENTRYPOINT, VOLUME, SHELL}
JSONPool == {WS, JSONABCD, JSONINVALID, JSONESCAPED, JSONNUMBER, JSONTRAILING, ECHO, EMPTY}
AddCopyPool == {WS, FROMFLAG, FROMFLAG2, CHOWNFLAG, CHMODFLAG, LINKFLAG, QUOTEDFLAG, SRC, DST}
OnbuildPool == {WS, ONBUILD, FROM, RUN, ECHO, EMPTY}
HealthcheckPool == {WS, NONE, CMD, INTERVALFLAG, RETRIESFLAG, SECONDS, CURL}
FromPool == {WS, PLATFORMFLAG, STR, AS, BUILDER, QUOTEDIMAGE}
PairPool == {WS, KEYVALUE, PAIRAB, PAIREMPTY, PAIRQUOTED, PAIRESCAPED}
ArgPool == {WS, KEYVALUE, KEY, EMPTY}
StopsignalPool == {WS, SIGTERM, SIGNALNINE, SIGNALTERM, EMPTY}
ExposePool == {WS, PORT80, PORT70000, PORTTCP, PORTUDP, PORTSCTP, PORTTCPEXTRA,
               PORTNAME, PORTNAMETCP, PORTNOPROTOCOL}

\* The InstructionTokens of one line: the keyword at column 1, argument k
\* at column k + 1.
MakeTokens(cmd, args, json) ==
    LET instruction == Token(cmd.Type, cmd.Value, cmd.Value, 1, 1)
        arguments == [k \in 1..Len(args) |->
                         Token(args[k].Type, args[k].Value, args[k].Value, 1, k + 1)]
    IN  [Instruction |-> instruction, Arguments |-> arguments, Comments |-> <<>>,
         Raw |-> <<instruction>> \o arguments, JSONForm |-> json]

\* tokens is one of the bounded ParseInstruction inputs: every command with
\* its own pool of arguments, and the nil InstructionTokens.
ParseInputs(t) ==
    \/ \E c \in JSONCommands, a \in BoundedSeq(JSONPool, MaxArgs), j \in BOOLEAN :
           t = MakeTokens(c, a, j)
    \/ \E c \in {ADD, COPY}, a \in BoundedSeq(AddCopyPool, MaxArgs) :
           t = MakeTokens(c, a, FALSE)
    \/ \E a \in BoundedSeq(OnbuildPool, MaxArgs) : t = MakeTokens(ONBUILD, a, FALSE)
    \/ \E a \in BoundedSeq(ExposePool, MaxArgs) : t = MakeTokens(EXPOSE, a, FALSE)
    \/ \E c \in {MAINTAINER, USER, WORKDIR}, a \in BoundedSeq({WS, STR}, MaxArgs) :
           t = MakeTokens(c, a, FALSE)
    \/ \E a \in BoundedSeq(FromPool, MaxArgs) : t = MakeTokens(FROM, a, FALSE)
    \/ \E c \in {LABEL, ENV}, a \in BoundedSeq(PairPool, MaxArgs) :
           t = MakeTokens(c, a, FALSE)
    \/ \E a \in BoundedSeq(ArgPool, MaxArgs) : t = MakeTokens(ARG, a, FALSE)
    \/ \E a \in BoundedSeq(StopsignalPool, MaxArgs) : t = MakeTokens(STOPSIGNAL, a, FALSE)
    \/ t = NoTokens
    \/ \E a \in BoundedSeq(HealthcheckPool, MaxHealthcheckArgs) :
           t = MakeTokens(HEALTHCHECK, a, FALSE)

InitParse ==
    /\ input = <<>>
    /\ l = NewLexer
    /\ pc = "ParseInstruction"
    /\ continuationMode = FALSE
    /\ instructions = <<>>
    /\ delivered = <<>>
    /\ lineStart = 0
    /\ iterStart = 0
    /\ ParseInputs(tokens)
    /\ result = NoResult
    /\ caller = <<>>
    /\ stages = NoStages
    /\ variables = <<>>
    /\ sc = NoScanner
    /\ scanned = NoScanned

\* ParseInstruction(tokens, stage) on the given InstructionTokens.
CallParseInstruction ==
    /\ pc = "ParseInstruction"
    /\ \E order \in RangeOrders(tokens) : result' = ParseInstruction(tokens, 0, order)
    /\ pc' = "parsed"
    /\ UNCHANGED <<sc, scanned, caller, stages, variables, input, l, continuationMode, instructions, delivered, lineStart,
                   iterStart, tokens>>

NextParse == CallParseInstruction

SpecParse == InitParse /\ [][NextParse]_vars

\* ParseInstruction on one of the InstructionTokens the lexer has returned.
ParseLexed ==
    /\ pc = "ProcessAllInstructions.return"
    /\ \E k \in 1..Len(instructions) :
        /\ tokens' = instructions[k]
        /\ \E order \in RangeOrders(instructions[k]) :
              result' = ParseInstruction(instructions[k], 0, order)
    /\ pc' = "parsed"
    /\ UNCHANGED <<sc, scanned, caller, stages, variables, input, l, continuationMode, instructions, delivered, lineStart,
                   iterStart>>

(***************************************************************************)
(* TokenizeAll: for l.currentToken.Type != TOKEN_EOF { l.NextToken() }     *)
(***************************************************************************)
CallTokenizeAll ==
    /\ pc = "idle"
    /\ pc' = "TokenizeAll"
    /\ iterStart' = Len(delivered)
    /\ UNCHANGED <<sc, scanned, caller, stages, variables, input, l, continuationMode, instructions, delivered, lineStart,
                   tokens, result>>

TokenizeAllStep ==
    /\ pc = "TokenizeAll"
    /\ IF l.currentToken.Type # "TOKEN_EOF"
       THEN /\ l' = NextToken(l).l
            /\ delivered' = Append(delivered, NextToken(l).token)
            /\ iterStart' = Len(delivered)
            /\ pc' = "TokenizeAll"
       ELSE /\ pc' = "TokenizeAll.return"
            /\ UNCHANGED <<l, delivered, iterStart>>
    /\ UNCHANGED <<sc, scanned, caller, stages, variables, input, continuationMode, instructions, lineStart, tokens, result>>

(***************************************************************************)
(* ProcessAllInstructions, with ProcessInstructionLine and TokenizeLine.   *)
(***************************************************************************)
CallProcessAllInstructions ==
    /\ pc = "idle"
    /\ instructions' = <<>>
    /\ pc' = "ProcessAllInstructions"
    /\ UNCHANGED <<sc, scanned, caller, stages, variables, input, l, continuationMode, delivered, lineStart, iterStart,
                   tokens, result>>

\* The loop test; a true test enters ProcessInstructionLine and TokenizeLine.
LoopTest ==
    /\ pc = "ProcessAllInstructions"
    /\ IF l.currentToken.Type # "TOKEN_EOF"
       THEN /\ l' = [l EXCEPT !.lineTokens = <<>>]
            /\ continuationMode' = FALSE
            /\ lineStart' = Len(delivered)
            /\ iterStart' = Len(delivered)
            /\ pc' = "TokenizeLine"
       ELSE /\ pc' = "ProcessAllInstructions.return"
            /\ UNCHANGED <<l, continuationMode, lineStart, iterStart>>
    /\ UNCHANGED <<sc, scanned, caller, stages, variables, input, instructions, delivered, tokens, result>>

\* TokenizeLine with the flag never cleared at an absorbed NEWLINE.
TokenizeLineIterNoReset(lx, mode) ==
    LET nt == NextToken(lx)
        token == nt.token
        l2 == [nt.l EXCEPT !.lineTokens = Append(@, token)]
    IN  IF token.Type = "TOKEN_EOF"
        THEN [l |-> nt.l, continuationMode |-> mode, break |-> TRUE]
        ELSE IF token.Type = "TOKEN_CONTINUATION"
        THEN [l |-> l2, continuationMode |-> TRUE, break |-> FALSE]
        ELSE [l |-> l2, continuationMode |-> mode,
              break |-> token.Type = "TOKEN_NEWLINE" /\ ~mode]

\* One iteration of TokenizeLine's loop, on the lexer and the local flag.
TokenizeLineIter(lx, mode) ==
    LET nt == NextToken(lx)
        token == nt.token
        l2 == [nt.l EXCEPT !.lineTokens = Append(@, token)]
    IN  IF token.Type = "TOKEN_EOF"
        THEN [l |-> nt.l, continuationMode |-> mode, break |-> TRUE]
        ELSE IF token.Type = "TOKEN_CONTINUATION"
        THEN [l |-> l2, continuationMode |-> TRUE, break |-> FALSE]
        ELSE IF token.Type = "TOKEN_NEWLINE"
        THEN IF ~mode
             THEN [l |-> l2, continuationMode |-> mode, break |-> TRUE]
             ELSE [l |-> l2, continuationMode |-> FALSE, break |-> FALSE]
        ELSE [l |-> l2, continuationMode |-> mode, break |-> FALSE]

TokenizeLineStep ==
    /\ pc = "TokenizeLine"
    /\ LET it == TokenizeLineIter(l, continuationMode)
       IN  /\ l' = it.l
           /\ continuationMode' = it.continuationMode
           /\ delivered' = Append(delivered, NextToken(l).token)
           /\ pc' = IF it.break THEN "ProcessInstructionLine" ELSE "TokenizeLine"
    /\ UNCHANGED <<sc, scanned, caller, stages, variables, input, instructions, lineStart, iterStart, tokens, result>>

NotNewlineOrContinuation(t) ==
    t.Type # "TOKEN_NEWLINE" /\ t.Type # "TOKEN_CONTINUATION"

IsComment(t) == t.Type = "TOKEN_COMMENT"

IsArgumentOfLine(t) == ~IsComment(t) /\ NotNewlineOrContinuation(t)

\* ProcessInstructionLine that keeps the NEWLINE and CONTINUATION markers
\* among the arguments.
ProcessInstructionLineKeepsMarkers(toks) ==
    IF Len(toks) = 0 \/ toks[1].Type = "TOKEN_COMMENT"
    THEN [inst |-> NoTokens, isNil |-> TRUE, err |-> NoError]
    ELSE IF ~IsInstruction(toks[1])
    THEN [inst |-> NoTokens, isNil |-> TRUE,
          err |-> DockerfileError("CodeSyntaxError", "Line must start with an instruction",
                                  toks[1].Line, toks[1].Column, toks[1].Raw)]
    ELSE [inst |-> [Instruction |-> toks[1],
                    Arguments |-> SelectSeq(Tail(toks), LAMBDA t : ~IsComment(t)),
                    Comments |-> SelectSeq(Tail(toks), IsComment),
                    Raw |-> toks,
                    JSONForm |-> FALSE],
          isNil |-> FALSE, err |-> NoError]

\* ProcessInstructionLine after TokenizeLine has returned toks:
\* (nil, nil), (nil, err) or (InstructionTokens, nil).
ProcessInstructionLine(toks) ==
    IF Len(toks) = 0 \/ toks[1].Type = "TOKEN_COMMENT"
    THEN [inst |-> NoTokens, isNil |-> TRUE, err |-> NoError]
    ELSE IF ~IsInstruction(toks[1])
    THEN [inst |-> NoTokens, isNil |-> TRUE,
          err |-> DockerfileError("CodeSyntaxError", "Line must start with an instruction",
                                  toks[1].Line, toks[1].Column, toks[1].Raw)]
    ELSE [inst |-> [Instruction |-> toks[1],
                    Arguments |-> SelectSeq(Tail(toks), IsArgumentOfLine),
                    Comments |-> SelectSeq(Tail(toks), IsComment),
                    Raw |-> toks,
                    JSONForm |-> FALSE],
          isNil |-> FALSE, err |-> NoError]

\* ProcessInstructionLine returns into the loop body of ProcessAllInstructions.
LineDone ==
    /\ pc = "ProcessInstructionLine"
    /\ LET r == ProcessInstructionLine(l.lineTokens)
       IN  IF r.err # NoError
           THEN /\ l' = [l EXCEPT !.errors = Append(@, r.err)]
                /\ pc' = "skip"
                /\ UNCHANGED instructions
           ELSE /\ instructions' = IF r.isNil THEN instructions
                                   ELSE Append(instructions, r.inst)
                /\ pc' = "ProcessAllInstructions"
                /\ UNCHANGED l
    /\ UNCHANGED <<sc, scanned, caller, stages, variables, input, continuationMode, delivered, lineStart, iterStart,
                   tokens, result>>

\* The inner loop after an error: skip to the next line.
SkipNeeded(lx) ==
    lx.currentToken.Type # "TOKEN_EOF" /\ lx.currentToken.Type # "TOKEN_NEWLINE"

\* The skip loop with a body that does not advance the lexer.
SkipStepNoAdvance ==
    /\ pc = "skip"
    /\ IF SkipNeeded(l)
       THEN /\ pc' = "skip"
            /\ UNCHANGED <<l, delivered>>
       ELSE /\ pc' = "ProcessAllInstructions"
            /\ UNCHANGED <<l, delivered>>
    /\ UNCHANGED <<sc, scanned, caller, stages, variables, input, continuationMode, instructions, lineStart, iterStart,
                   tokens, result>>

SkipStep ==
    /\ pc = "skip"
    /\ IF SkipNeeded(l)
       THEN /\ l' = NextToken(l).l
            /\ delivered' = Append(delivered, NextToken(l).token)
            /\ pc' = "skip"
       ELSE /\ pc' = "ProcessAllInstructions"
            /\ UNCHANGED <<l, delivered>>
    /\ UNCHANGED <<sc, scanned, caller, stages, variables, input, continuationMode, instructions, lineStart, iterStart,
                   tokens, result>>

Next ==
    \/ CallTokenizeAll
    \/ TokenizeAllStep
    \/ CallProcessAllInstructions
    \/ LoopTest
    \/ TokenizeLineStep
    \/ LineDone
    \/ SkipStep
    \/ ParseLexed

Spec == Init /\ [][Next]_vars

(***************************************************************************)
(* The same lexer under fair scheduling: a running operation keeps         *)
(* running (the code is sequential and nothing suspends it).               *)
(***************************************************************************)
SpecFair == Init /\ [][Next]_vars /\ WF_vars(Next)

(***************************************************************************)
(* DetectStages and DetectVariables.  Both run ProcessAllInstructions on   *)
(* the lexer; caller holds who waits for its return.                       *)
(***************************************************************************)
StageInfo(index, name, baseImage, startLine, endLine) ==
    [Index |-> index, Name |-> name, BaseImage |-> baseImage,
     StartLine |-> startLine, EndLine |-> endLine]

\* stageName: the value after the first AS token that has a successor.
RECURSIVE StageNameFrom(_, _)
StageNameFrom(arguments, i) ==
    IF i > Len(arguments) THEN ""
    ELSE IF arguments[i].Type = "TOKEN_AS" /\ i + 1 <= Len(arguments)
    THEN arguments[i + 1].Value
    ELSE StageNameFrom(arguments, i + 1)

\* The loop of DetectStages over the instructions that never advances
\* stageIndex.
RECURSIVE StagesLoopSameIndex(_, _)
StagesLoopSameIndex(insts, acc) ==
    IF Len(insts) = 0 THEN acc
    ELSE LET inst == Head(insts)
         IN  IF GetInstructionValue(inst) = "FROM"
             THEN StagesLoopSameIndex(Tail(insts),
                      [stages |-> IF acc.currentStage.StartLine > 0
                                  THEN Append(acc.stages,
                                              [acc.currentStage EXCEPT
                                                  !.EndLine = inst.Instruction.Line - 1])
                                  ELSE acc.stages,
                       currentStage |->
                           StageInfo(acc.stageIndex,
                                     StageNameFrom(inst.Arguments, 1),
                                     IF Len(inst.Arguments) > 0
                                     THEN inst.Arguments[1].Value ELSE "",
                                     inst.Instruction.Line, 0),
                       stageIndex |-> acc.stageIndex])
             ELSE StagesLoopSameIndex(Tail(insts), acc)

\* The loop of DetectStages over the instructions.
RECURSIVE StagesLoop(_, _)
StagesLoop(insts, acc) ==
    IF Len(insts) = 0 THEN acc
    ELSE LET inst == Head(insts)
         IN  IF GetInstructionValue(inst) = "FROM"
             THEN StagesLoop(Tail(insts),
                      [stages |-> IF acc.currentStage.StartLine > 0
                                  THEN Append(acc.stages,
                                              [acc.currentStage EXCEPT
                                                  !.EndLine = inst.Instruction.Line - 1])
                                  ELSE acc.stages,
                       currentStage |->
                           StageInfo(acc.stageIndex,
                                     StageNameFrom(inst.Arguments, 1),
                                     IF Len(inst.Arguments) > 0
                                     THEN inst.Arguments[1].Value ELSE "",
                                     inst.Instruction.Line, 0),
                       stageIndex |-> acc.stageIndex + 1])
             ELSE StagesLoop(Tail(insts), acc)

\* DetectStages that leaves the EndLine of the last stage unset.
DetectStagesOpenEnd(insts, errors) ==
    IF Len(errors) > 0 THEN [stages |-> <<>>, err |-> errors[1]]
    ELSE LET r == StagesLoop(insts, [stages |-> <<>>,
                                     currentStage |-> StageInfo(0, "", "", 0, 0),
                                     stageIndex |-> 0])
         IN  [stages |-> IF r.currentStage.StartLine > 0
                         THEN Append(r.stages, r.currentStage) ELSE r.stages,
              err |-> NoError]

\* DetectStages once ProcessAllInstructions has returned (insts, errors).
DetectStages(insts, errors) ==
    IF Len(errors) > 0 THEN [stages |-> <<>>, err |-> errors[1]]
    ELSE LET r == StagesLoop(insts, [stages |-> <<>>,
                                     currentStage |-> StageInfo(0, "", "", 0, 0),
                                     stageIndex |-> 0])
             last == IF Len(insts) > 0
                     THEN [r.currentStage EXCEPT
                              !.EndLine = insts[Len(insts)].Instruction.Line]
                     ELSE r.currentStage
         IN  [stages |-> IF r.currentStage.StartLine > 0
                         THEN Append(r.stages, last) ELSE r.stages,
              err |-> NoError]

\* parseVariableDeclarations: the map built from the parts, left to right.
RECURSIVE DeclarationsOf(_, _)
DeclarationsOf(parts, acc) ==
    IF Len(parts) = 0 THEN acc
    ELSE LET part == Head(parts)
         IN  IF part = "" THEN DeclarationsOf(Tail(parts), acc)
             ELSE IF Contains(part, "=")
             THEN DeclarationsOf(Tail(parts),
                                 SetFlag(acc, SplitKeyValue(part)[1], SplitKeyValue(part)[2]))
             ELSE DeclarationsOf(Tail(parts), SetFlag(acc, part, ""))

parseVariableDeclarations(args) == DeclarationsOf(Split(args, " "), NoFlags)

\* The index of the first stage whose line range holds the line, else -1.
StageIdxOf(line, stageList) ==
    LET holding == {i \in 1..Len(stageList) :
                       /\ line >= stageList[i].StartLine
                       /\ (stageList[i].EndLine = 0 \/ line <= stageList[i].EndLine)}
    IN  IF holding = {} THEN -1
        ELSE (CHOOSE i \in holding : \A j \in holding : i <= j) - 1

VariableInfo(name, type, value, line, column, stageIdx) ==
    [Name |-> name, Type |-> type, Value |-> value, Line |-> line, Column |-> column,
     StageIdx |-> stageIdx]

\* The variable lists DetectVariables' loop can build: the declarations of
\* one instruction come in the order the map is ranged over.
RECURSIVE VariableLists(_, _)
VariableLists(insts, stageList) ==
    IF Len(insts) = 0 THEN {<<>>}
    ELSE LET inst == Head(insts)
             instType == GetInstructionValue(inst)
             declarations == parseVariableDeclarations(GetArgumentsAsString(inst))
             stageIdx == StageIdxOf(inst.Instruction.Line, stageList)
             own == IF instType # "ARG" /\ instType # "ENV" THEN {<<>>}
                    ELSE {[k \in DOMAIN order |->
                              VariableInfo(order[k], instType, declarations[order[k]],
                                           inst.Instruction.Line, inst.Instruction.Column,
                                           stageIdx)] : order \in KeyOrders(declarations)}
         IN  {first \o rest : first \in own, rest \in VariableLists(Tail(insts), stageList)}

\* The lines the stage inputs are made of; one RUN goes over two physical
\* lines, one FROM has a flag before its image.
StageLines ==
    { <<FROM, STR, NL>>, <<FROM, STR, AS, BUILDER, NL>>,
      <<FROM, PLATFORMFLAG, STR, AS, BUILDER, NL>>, <<ARG, KEYVALUE, NL>>,
      <<ENV, KEYVALUE, KEY, NL>>, <<RUN, STR, NL>>, <<RUN, STR, CONT, NL, STR, NL>>,
      <<STR, NL>>, <<CMT, NL>> }

RECURSIVE Flatten(_)
Flatten(lines) == IF Len(lines) = 0 THEN <<>> ELSE Head(lines) \o Flatten(Tail(lines))

StageInputs == {Flatten(lines) : lines \in BoundedSeq(StageLines, MaxLines)}

InitStages ==
    /\ input \in StageInputs
    /\ l = NewLexer
    /\ pc = "idle"
    /\ continuationMode = FALSE
    /\ instructions = <<>>
    /\ delivered = <<>>
    /\ lineStart = 0
    /\ iterStart = 0
    /\ tokens = NoTokens
    /\ result = NoResult
    /\ caller = <<>>
    /\ stages = NoStages
    /\ variables = <<>>
    /\ sc = NoScanner
    /\ scanned = NoScanned

CallDetectStages ==
    /\ pc = "idle"
    /\ caller' = <<"DetectStages">>
    /\ instructions' = <<>>
    /\ pc' = "ProcessAllInstructions"
    /\ UNCHANGED <<sc, scanned, input, l, continuationMode, delivered, lineStart, iterStart,
                   tokens, result, stages, variables>>

\* DetectVariables starts with a call of DetectStages.
CallDetectVariables ==
    /\ pc = "idle"
    /\ caller' = <<"DetectStages", "DetectVariables">>
    /\ instructions' = <<>>
    /\ pc' = "ProcessAllInstructions"
    /\ UNCHANGED <<sc, scanned, input, l, continuationMode, delivered, lineStart, iterStart,
                   tokens, result, stages, variables>>

\* ProcessAllInstructions returns into DetectStages, which runs to its end.
DetectStagesReturn ==
    /\ pc = "ProcessAllInstructions.return"
    /\ caller # <<>>
    /\ Head(caller) = "DetectStages"
    /\ stages' = DetectStages(instructions, l.errors)
    /\ caller' = Tail(caller)
    /\ pc' = IF Tail(caller) = <<>> THEN "DetectStages.return" ELSE "DetectVariables"
    /\ UNCHANGED <<sc, scanned, input, l, continuationMode, instructions, delivered, lineStart,
                   iterStart, tokens, result, variables>>

\* DetectVariables after DetectStages: return on an error, else call
\* ProcessAllInstructions on the same lexer.
DetectVariablesStep ==
    /\ pc = "DetectVariables"
    /\ IF stages.err # NoError
       THEN /\ variables' = <<>>
            /\ caller' = <<>>
            /\ pc' = "DetectVariables.return"
            /\ UNCHANGED instructions
       ELSE /\ instructions' = <<>>
            /\ pc' = "ProcessAllInstructions"
            /\ UNCHANGED <<variables, caller>>
    /\ UNCHANGED <<sc, scanned, input, l, continuationMode, delivered, lineStart, iterStart,
                   tokens, result, stages>>

\* ProcessAllInstructions returns into DetectVariables, which runs its loop.
DetectVariablesReturn ==
    /\ pc = "ProcessAllInstructions.return"
    /\ caller # <<>>
    /\ Head(caller) = "DetectVariables"
    /\ variables' \in VariableLists(instructions, stages.stages)
    /\ caller' = <<>>
    /\ pc' = "DetectVariables.return"
    /\ UNCHANGED <<sc, scanned, input, l, continuationMode, instructions, delivered, lineStart,
                   iterStart, tokens, result, stages>>

NextStages ==
    \/ CallDetectStages
    \/ CallDetectVariables
    \/ LoopTest
    \/ TokenizeLineStep
    \/ LineDone
    \/ SkipStep
    \/ DetectStagesReturn
    \/ DetectVariablesStep
    \/ DetectVariablesReturn

SpecStages == InitStages /\ [][NextStages]_vars

(***************************************************************************)
(* Scanner.scanHeredocContent with peekLine, on the characters of the      *)
(* source that follow the heredoc opener.  sc.pos is the reader's          *)
(* position.  Scanner.scan is not part of the sources at hand: it reads    *)
(* the next character into sc.char and advances the position, and fails    *)
(* with io.EOF at the end of the source.                                   *)
(***************************************************************************)
AtEnd(s) == s.pos >= Len(s.src)

scan(s) ==
    LET ch == CharAt(s.src, s.pos + 1)
    IN  [s EXCEPT !.pos = @ + 1,
                  !.char = ch,
                  !.position = IF ch = "\n" THEN [Line |-> @.Line + 1, Column |-> 0]
                               ELSE [Line |-> @.Line, Column |-> @.Column + 1]]

\* scan called n times, its error ignored.
RECURSIVE scanTimes(_, _)
scanTimes(s, n) ==
    IF n = 0 THEN s
    ELSE scanTimes(IF AtEnd(s) THEN s ELSE scan(s), n - 1)

\* The sources: the text after the opener, over a small alphabet.
HeredocChars == {"a", "E", " ", "\n"}

RECURSIVE Texts(_)
Texts(n) ==
    IF n = 0 THEN {""}
    ELSE Texts(n - 1) \cup {t \o c : t \in {u \in Texts(n - 1) : Len(u) = n - 1},
                                     c \in HeredocChars}

HeredocWords == {"E", ""}

InitHeredoc ==
    /\ input = <<>>
    /\ l = NewLexer
    /\ pc = "scanHeredocContent"
    /\ continuationMode = FALSE
    /\ instructions = <<>>
    /\ delivered = <<>>
    /\ lineStart = 0
    /\ iterStart = 0
    /\ tokens = NoTokens
    /\ result = NoResult
    /\ caller = <<>>
    /\ stages = NoStages
    /\ variables = <<>>
    /\ \E src \in Texts(MaxChars), word \in HeredocWords :
          sc = [NoScanner EXCEPT !.src = src, !.inHeredoc = TRUE, !.heredocWord = word]
    /\ scanned = NoScanned

\* One iteration of scanHeredocContent's loop up to the call of peekLine.
HeredocScanStep ==
    /\ pc = "scanHeredocContent"
    /\ IF AtEnd(sc)
       THEN /\ scanned' = [token |-> NoToken, err |-> EOFError]
            /\ pc' = "scanHeredocContent.return"
            /\ UNCHANGED sc
       ELSE /\ IF scan(sc).char = "\n"
               THEN /\ sc' = [scan(sc) EXCEPT !.peekBuffer = ""]
                    /\ pc' = "peekLine"
               ELSE /\ sc' = [scan(sc) EXCEPT !.buffer = @ \o scan(sc).char]
                    /\ pc' = "scanHeredocContent"
            /\ UNCHANGED scanned
    /\ UNCHANGED <<input, l, continuationMode, instructions, delivered, lineStart,
                   iterStart, tokens, result, caller, stages, variables>>

\* One iteration of peekLine's loop, or its return into scanHeredocContent
\* and the rest of that iteration.  A character of the line is read,
\* written to peekBuffer and unread again: the reader stays where it was.
\* The buffer grows without limit; the model follows it up to MaxPeek.
PeekLineStep ==
    /\ pc = "peekLine"
    /\ IF AtEnd(sc) \/ CharAt(sc.src, sc.pos + 1) = "\n"
       THEN IF TrimSpace(sc.peekBuffer) = sc.heredocWord
            THEN /\ sc' = [scanTimes(sc, Len(sc.heredocWord) + 1) EXCEPT !.inHeredoc = FALSE]
                 /\ scanned' = [token |-> Token("TOKEN_HEREDOC_CONTENT", sc.buffer,
                                                sc.buffer, 1, 0),
                                err |-> NoError]
                 /\ pc' = "scanHeredocContent.return"
            ELSE /\ sc' = [sc EXCEPT !.buffer = @ \o sc.char]
                 /\ pc' = "scanHeredocContent"
                 /\ UNCHANGED scanned
       ELSE /\ Len(sc.peekBuffer) < MaxPeek
            /\ sc' = [sc EXCEPT !.peekBuffer = @ \o CharAt(sc.src, sc.pos + 1)]
            /\ pc' = "peekLine"
            /\ UNCHANGED scanned
    /\ UNCHANGED <<input, l, continuationMode, instructions, delivered, lineStart,
                   iterStart, tokens, result, caller, stages, variables>>

HEREDOCSTART(word) == Lexeme("TOKEN_HEREDOC_START", word)
HEREDOCCONTENT(text) == Lexeme("TOKEN_HEREDOC_CONTENT", text)

\* What Scan delivers for a RUN line that opens the heredoc: the keyword,
\* the opener, then what scanHeredocContent returned (a token, or io.EOF
\* which ends the stream).  Whether a NEWLINE token stands between opener
\* and content is not fixed by the sources at hand: both are possible.
HeredocLine(newline) ==
    <<RUN, HEREDOCSTART(sc.heredocWord)>>
    \o (IF newline THEN <<NL>> ELSE <<>>)
    \o (IF scanned.err = NoError
        THEN <<HEREDOCCONTENT(scanned.token.Value), NL>> ELSE <<>>)

\* scanHeredocContent has returned: a lexer is set up on the line's stream.
HeredocScanned ==
    /\ pc = "scanHeredocContent.return"
    /\ \E newline \in BOOLEAN : input' = HeredocLine(newline)
    /\ l' = NewLexer'
    /\ pc' = "idle"
    /\ UNCHANGED <<sc, scanned, continuationMode, instructions, delivered, lineStart,
                   iterStart, tokens, result, caller, stages, variables>>

NextHeredoc ==
    \/ HeredocScanStep
    \/ PeekLineStep
    \/ HeredocScanned
    \/ CallProcessAllInstructions
    \/ LoopTest
    \/ TokenizeLineStep
    \/ LineDone
    \/ SkipStep
    \/ ParseLexed

\* The code is sequential: a running operation keeps running.
SpecHeredoc == InitHeredoc /\ [][NextHeredoc]_vars /\ WF_vars(NextHeredoc)

(***************************************************************************)
(* Scanner.scanJSONArray and Scanner.scanVariable, on the characters of    *)
(* the source.  Each runs to its return in one step.  Scan, which calls    *)
(* them, is not part of the sources at hand: here every character of the   *)
(* source is read in turn, scanJSONArray may be called when the current    *)
(* character is "[" and scanVariable when it is "$".                       *)
(***************************************************************************)
Scanned(s, token, err) == [s |-> s, token |-> token, err |-> err]

WriteRune(s, ch) == [s EXCEPT !.buffer = @ \o ch]

IsJSONQuoteDoubleOnly(ch) == ch = "\""

IsJSONQuote(ch) == ch \in {"\"", "'"}

\* The loop of scanQuotedContentInJSON: up to the closing quote, a
\* backslash taking the next character with it.
RECURSIVE QuotedContentLoop(_, _)
QuotedContentLoop(s, quote) ==
    IF AtEnd(s) THEN Scanned(s, NoToken, EOFError)
    ELSE LET s1 == scan(s)
         IN  IF s1.char = "\\"
             THEN LET s2 == WriteRune(s1, s1.char)
                  IN  IF AtEnd(s2) THEN Scanned(s2, NoToken, EOFError)
                      ELSE QuotedContentLoop(WriteRune(scan(s2), scan(s2).char), quote)
             ELSE IF s1.char = quote
                  THEN Scanned(WriteRune(s1, s1.char), NoToken, NoError)
                  ELSE QuotedContentLoop(WriteRune(s1, s1.char), quote)

scanQuotedContentInJSON(s, quote) == QuotedContentLoop(WriteRune(s, quote), quote)

\* The loop of scanJSONArray.
RECURSIVE JSONArrayLoop(_, _, _)
JSONArrayLoop(s, depth, startPos) ==
    IF AtEnd(s) THEN Scanned(s, NoToken, EOFError)
    ELSE LET s1 == scan(s)
         IN  IF IsJSONQuote(s1.char)
             THEN LET quoted == scanQuotedContentInJSON(s1, s1.char)
                  IN  IF quoted.err # NoError THEN quoted
                      ELSE JSONArrayLoop(quoted.s, depth, startPos)
             ELSE LET d == CASE s1.char = "[" -> depth + 1
                             [] s1.char = "]" -> depth - 1
                             [] OTHER -> depth
                      s2 == WriteRune(s1, s1.char)
                  IN  IF d = 0
                      THEN Scanned(s2, Token("TOKEN_STRING", s2.buffer, s2.buffer,
                                             startPos.Line, startPos.Column), NoError)
                      ELSE JSONArrayLoop(s2, d, startPos)

scanJSONArray(s) == JSONArrayLoop([s EXCEPT !.buffer = s.char], 1, s.position)

Letters ==
    {"a", "b", "c", "d", "e", "f", "g", "h", "i", "j", "k", "l", "m", "n", "o", "p", "q",
     "r", "s", "t", "u", "v", "w", "x", "y", "z", "A", "B", "C", "D", "E", "F", "G", "H",
     "I", "J", "K", "L", "M", "N", "O", "P", "Q", "R", "S", "T", "U", "V", "W", "X", "Y",
     "Z"}

isValidVariableChar(ch) == ch \in Letters \/ ch \in Digits \/ ch = "_"

\* The end of scanVariable: the buffer is recorded and returned.
VariableScanned(s, startPos) ==
    Scanned([s EXCEPT !.variables = @ \cup {s.buffer}],
            Token("TOKEN_VARIABLE", s.buffer, s.buffer, startPos.Line, startPos.Column),
            NoError)

\* The loop of the ${VAR} form.
RECURSIVE BracedLoop(_, _)
BracedLoop(s, startPos) ==
    IF AtEnd(s) THEN Scanned(s, NoToken, EOFError)
    ELSE LET s1 == scan(s)
         IN  IF s1.char = "}" THEN VariableScanned(WriteRune(s1, s1.char), startPos)
             ELSE IF ~isValidVariableChar(s1.char)
                  THEN Scanned(s1, NoToken,
                               DockerfileError("CodeSyntaxError",
                                               "Invalid character in variable name",
                                               s1.position.Line, s1.position.Column,
                                               s1.buffer))
                  ELSE BracedLoop(WriteRune(s1, s1.char), startPos)

\* The loop of the $VAR form: a failing scan ends it.
RECURSIVE BareLoop(_, _)
BareLoop(s, startPos) ==
    IF isValidVariableChar(s.char)
    THEN IF AtEnd(WriteRune(s, s.char))
         THEN VariableScanned(WriteRune(s, s.char), startPos)
         ELSE BareLoop(scan(WriteRune(s, s.char)), startPos)
    ELSE VariableScanned(s, startPos)

scanVariable(s) ==
    LET s0 == [s EXCEPT !.buffer = s.char]
    IN  IF AtEnd(s0) THEN Scanned(s0, NoToken, EOFError)
        ELSE IF scan(s0).char = "{"
             THEN BracedLoop(WriteRune(scan(s0), "{"), s.position)
             ELSE BareLoop(scan(s0), s.position)

\* The sources: up to MaxPieces pieces, one after the other.
ScanPieces ==
    {"$A", "${A}", "${A-}", "$", "${", "$_1", " ", "a",
     "[", "]", "\"", "\"]\"", "'\"['", "\"\\\"]\""}

InitScanner ==
    /\ input = <<>>
    /\ l = NewLexer
    /\ pc = "Scan"
    /\ continuationMode = FALSE
    /\ instructions = <<>>
    /\ delivered = <<>>
    /\ lineStart = 0
    /\ iterStart = 0
    /\ tokens = NoTokens
    /\ result = NoResult
    /\ caller = <<>>
    /\ stages = NoStages
    /\ variables = <<>>
    /\ \E pieces \in BoundedSeq(ScanPieces, MaxPieces) :
          sc = [NoScanner EXCEPT !.src = Join(pieces, "")]
    /\ scanned = NoScanned

\* The next character is read.
ScanChar ==
    /\ pc = "Scan"
    /\ ~AtEnd(sc)
    /\ sc' = scan(sc)
    /\ caller' = <<>>
    /\ UNCHANGED <<scanned, pc, input, l, continuationMode, instructions, delivered,
                   lineStart, iterStart, tokens, result, stages, variables>>

CallScanJSONArray ==
    /\ pc = "Scan"
    /\ sc.char = "["
    /\ sc' = scanJSONArray(sc).s
    /\ scanned' = [token |-> scanJSONArray(sc).token, err |-> scanJSONArray(sc).err]
    /\ caller' = <<"scanJSONArray">>
    /\ UNCHANGED <<pc, input, l, continuationMode, instructions, delivered,
                   lineStart, iterStart, tokens, result, stages, variables>>

CallScanVariable ==
    /\ pc = "Scan"
    /\ sc.char = "$"
    /\ sc' = scanVariable(sc).s
    /\ scanned' = [token |-> scanVariable(sc).token, err |-> scanVariable(sc).err]
    /\ caller' = <<"scanVariable">>
    /\ UNCHANGED <<pc, input, l, continuationMode, instructions, delivered,
                   lineStart, iterStart, tokens, result, stages, variables>>

NextScanner ==
    \/ ScanChar
    \/ CallScanJSONArray
    \/ CallScanVariable

SpecScanner == InitScanner /\ [][NextScanner]_vars

(***************************************************************************)
(* Stages and the instructions that point to them.  A *Stage is one of     *)
(* StageRefs (0 is nil); stages maps it to the Stage it points to.         *)
(* instructions holds the Instructions that ParseInstruction returned,     *)
(* Stage.Instructions the copies that AddInstruction appended.             *)
(***************************************************************************)
StageRefs == {1, 2}

NewStage(s) == [Index |-> s, Instructions |-> <<>>]

RECURSIVE Sum(_, _)
Sum(f, S) ==
    IF S = {} THEN 0
    ELSE LET x == CHOOSE y \in S : TRUE IN f[x] + Sum(f, S \ {x})

\* The number of Instructions appended to the stages so far.
Added == Sum([s \in StageRefs |-> Len(stages[s].Instructions)], StageRefs)

StageTokens ==
    {MakeTokens(RUN, <<STR>>, FALSE), MakeTokens(CMD, <<ECHO>>, FALSE),
     MakeTokens(RUN, <<>>, FALSE)}

InitStageRefs ==
    /\ input = <<>>
    /\ l = NewLexer
    /\ pc = "idle"
    /\ continuationMode = FALSE
    /\ instructions = <<>>
    /\ delivered = <<>>
    /\ lineStart = 0
    /\ iterStart = 0
    /\ tokens = NoTokens
    /\ result = NoResult
    /\ caller = <<>>
    /\ stages = [s \in StageRefs |-> NewStage(s)]
    /\ variables = <<>>
    /\ sc = NoScanner
    /\ scanned = NoScanned

\* ParseInstruction(tokens, stage): the caller keeps the Instruction it
\* gets back.
ParseForStage ==
    /\ Len(instructions) < MaxInstructions
    /\ \E t \in StageTokens, stage \in StageRefs \cup {0} :
          /\ tokens' = t
          /\ \E order \in RangeOrders(t) : result' = ParseInstruction(t, stage, order)
    /\ instructions' = IF result'.err = NoError
                       THEN Append(instructions, result'.inst)
                       ELSE instructions
    /\ caller' = <<"ParseInstruction">>
    /\ UNCHANGED <<sc, scanned, stages, variables, input, l, continuationMode, delivered,
                   lineStart, iterStart, pc>>

\* Stage.AddInstruction: the argument is a copy; its Stage is set and it is
\* appended.
AddInstruction(s, inst) ==
    [stages EXCEPT ![s].Instructions = Append(@, [inst EXCEPT !.Stage = s])]

CallAddInstruction ==
    /\ Added < MaxInstructions
    /\ \E s \in StageRefs, i \in 1..Len(instructions) :
          stages' = AddInstruction(s, instructions[i])
    /\ caller' = <<"AddInstruction">>
    /\ UNCHANGED <<sc, scanned, variables, input, l, continuationMode, instructions,
                   delivered, lineStart, iterStart, tokens, result, pc>>

NextStageRefs ==
    \/ ParseForStage
    \/ CallAddInstruction

SpecStageRefs == InitStageRefs /\ [][NextStageRefs]_vars

(***************************************************************************)
(* The fallback parser and the optimizer: ParseDockerfile on a text,       *)
(* Optimize on what it returned, and again on Optimize's output.  sc.src   *)
(* is the text, instructions the parsed Dockerfile, result what            *)
(* combineRunCommands and formatDockerfile made of it, delivered the       *)
(* texts that Optimize returned so far.                                    *)
(***************************************************************************)
Instruction(command, args) == [Command |-> command, Args |-> args]

\* strings.Fields: the maximal runs of characters that are not white space.
RECURSIVE FieldsFrom(_, _, _)
FieldsFrom(str, i, field) ==
    IF i > Len(str) THEN (IF field = "" THEN <<>> ELSE <<field>>)
    ELSE IF CharAt(str, i) \in Space
         THEN (IF field = "" THEN <<>> ELSE <<field>>) \o FieldsFrom(str, i + 1, "")
         ELSE FieldsFrom(str, i + 1, field \o CharAt(str, i))

Fields(str) == FieldsFrom(str, 1, "")

\* The loop of ParseDockerfile over the lines.
RECURSIVE ParseLines(_)
ParseLines(lines) ==
    IF Len(lines) = 0 THEN <<>>
    ELSE LET line == TrimSpace(Head(lines))
             parts == Fields(line)
         IN  (IF line = "" \/ HasPrefix(line, "#") \/ Len(parts) = 0
              THEN <<>>
              ELSE <<Instruction(Head(parts), Tail(parts))>>)
             \o ParseLines(Tail(lines))

ParseDockerfile(content) == ParseLines(Split(content, "\n"))

\* The RUN that stands for the collected commands.
CombinedRun(runCommands) == Instruction("RUN", <<Join(runCommands, " && ")>>)

\* The loop of combineRunCommands: result and runCommands after the
\* instructions from position i on.
RECURSIVE CombineLoop(_, _, _, _)
CombineLoop(insts, i, res, runCommands) ==
    IF i > Len(insts) THEN [result |-> res, runCommands |-> runCommands]
    ELSE IF insts[i].Command = "RUN"
         THEN CombineLoop(insts, i + 1, res, Append(runCommands, Join(insts[i].Args, " ")))
         ELSE IF Len(runCommands) > 0
              THEN CombineLoop(insts, i + 1,
                               Append(Append(res, CombinedRun(runCommands)), insts[i]), <<>>)
              ELSE CombineLoop(insts, i + 1, Append(res, insts[i]), runCommands)

combineRunCommandsNoLastBlock(insts) == CombineLoop(insts, 1, <<>>, <<>>).result

combineRunCommands(insts) ==
    LET after == CombineLoop(insts, 1, <<>>, <<>>)
    IN  IF Len(after.runCommands) > 0
        THEN Append(after.result, CombinedRun(after.runCommands))
        ELSE after.result

RECURSIVE formatDockerfile(_)
formatDockerfile(insts) ==
    IF Len(insts) = 0 THEN ""
    ELSE Head(insts).Command
         \o (IF Len(Head(insts).Args) > 0 THEN " " \o Join(Head(insts).Args, " ") ELSE "")
         \o "\n" \o formatDockerfile(Tail(insts))

\* The lines of the texts.
OptimizerLines == {"RUN a", "RUN b c", "RUN", "CMD x", "#c", "", " RUN  a "}

InitOptimizer ==
    /\ input = <<>>
    /\ l = NewLexer
    /\ pc = "ParseDockerfile"
    /\ continuationMode = FALSE
    /\ instructions = <<>>
    /\ delivered = <<>>
    /\ lineStart = 0
    /\ iterStart = 0
    /\ tokens = NoTokens
    /\ result = NoResult
    /\ caller = <<>>
    /\ stages = NoStages
    /\ variables = <<>>
    /\ \E lines \in BoundedSeq(OptimizerLines, MaxLines) :
          sc = [NoScanner EXCEPT !.src = Join(lines, "\n")]
    /\ scanned = NoScanned

CallParseDockerfile ==
    /\ pc = "ParseDockerfile"
    /\ instructions' = ParseDockerfile(sc.src)
    /\ pc' = "Optimize"
    /\ UNCHANGED <<sc, scanned, caller, stages, variables, input, l, continuationMode,
                   delivered, lineStart, iterStart, tokens, result>>

\* Optimize; its output is the text of the next round.
Optimize ==
    /\ pc = "Optimize"
    /\ result' = [instructions |-> combineRunCommands(instructions),
                  text |-> formatDockerfile(combineRunCommands(instructions))]
    /\ delivered' = Append(delivered, result'.text)
    /\ sc' = [sc EXCEPT !.src = result'.text]
    /\ pc' = IF Len(delivered') < MaxRounds THEN "ParseDockerfile" ELSE "done"
    /\ UNCHANGED <<input, scanned, caller, stages, variables, l, continuationMode,
                   instructions, lineStart, iterStart, tokens>>

NextOptimizer ==
    \/ CallParseDockerfile
    \/ Optimize

SpecOptimizer == InitOptimizer /\ [][NextOptimizer]_vars

(***************************************************************************)
(* The command-line parser: DockerfileParser.ParseFile, one iteration of   *)
(* its loop over the physical lines in a step.  sc.src is the file, l the  *)
(* DockerfileParser, instructions the list it builds, result.err the       *)
(* error it returns.  delivered records, for the claims only, the numbers  *)
(* of the physical lines written to the buffer (pending) and of those      *)
(* that went into each Instruction (lines).                                *)
(***************************************************************************)
HasSuffix(str, suffix) ==
    /\ Len(str) >= Len(suffix)
    /\ SubSeq(str, Len(str) - Len(suffix) + 1, Len(str)) = suffix

TrimSuffix(str, suffix) ==
    IF HasSuffix(str, suffix) THEN SubSeq(str, 1, Len(str) - Len(suffix)) ELSE str

LowerCase == "abcdefghijklmnopqrstuvwxyz"
UpperCase == "ABCDEFGHIJKLMNOPQRSTUVWXYZ"

\* strings.ToUpper, on ASCII.
RECURSIVE ToUpper(_)
ToUpper(str) ==
    IF str = "" THEN ""
    ELSE LET ch == CharAt(str, 1)
             at == {i \in 1..Len(LowerCase) : CharAt(LowerCase, i) = ch}
         IN  (IF at = {} THEN ch ELSE CharAt(UpperCase, CHOOSE i \in at : TRUE))
             \o ToUpper(SubSeq(str, 2, Len(str)))

\* The lines that bufio.Scanner delivers: the text split at newlines, no
\* empty line after a final newline, a carriage return at the end of a
\* line dropped.
ScanLines(text) ==
    LET parts == Split(text, "\n")
        kept == IF parts[Len(parts)] = "" THEN SubSeq(parts, 1, Len(parts) - 1) ELSE parts
    IN  [i \in 1..Len(kept) |-> TrimSuffix(kept[i], "\r")]

\* The loop of splitCommand: st holds parts, current, inQuotes, escaped.
RECURSIVE SplitCommandFrom(_, _, _)
SplitCommandFrom(line, i, st) ==
    IF i > Len(line)
    THEN IF Len(st.current) > 0 THEN Append(st.parts, st.current) ELSE st.parts
    ELSE LET char == CharAt(line, i)
         IN  SplitCommandFrom(line, i + 1,
                 IF st.escaped
                 THEN [st EXCEPT !.current = @ \o char, !.escaped = FALSE]
                 ELSE IF char = "\\" THEN [st EXCEPT !.escaped = TRUE]
                 ELSE IF char = "\"" THEN [st EXCEPT !.inQuotes = ~@]
                 ELSE IF char = " " /\ ~st.inQuotes
                      THEN IF Len(st.current) > 0
                           THEN [st EXCEPT !.parts = Append(@, st.current), !.current = ""]
                           ELSE st
                 ELSE [st EXCEPT !.current = @ \o char])

splitCommand(line) ==
    SplitCommandFrom(line, 1,
                     [parts |-> <<>>, current |-> "", inQuotes |-> FALSE, escaped |-> FALSE])

validCommands ==
    {"FROM", "RUN", "CMD", "LABEL", "EXPOSE", "ENV", "ADD", "COPY", "ENTRYPOINT", "VOLUME",
     "USER", "WORKDIR", "ARG", "ONBUILD", "STOPSIGNAL", "HEALTHCHECK", "SHELL"}

isValidCommand(cmd) == cmd \in validCommands

NoLine == [Command |-> "", Args |-> <<>>, Raw |-> "", LineNum |-> 0, Set |-> FALSE]

\* parseLine: the Instruction (Set is FALSE for nil) and the error.
parseLine(p, text) ==
    LET line == TrimSpace(text)
        parts == splitCommand(line)
    IN  IF line = "" THEN [inst |-> NoLine, err |-> NoError]
        ELSE IF Len(parts) = 0
        THEN [inst |-> NoLine,
              err |-> DockerfileError("fmt.Errorf", "invalid instruction format", 0, 0, "")]
        ELSE IF ~isValidCommand(ToUpper(parts[1]))
        THEN [inst |-> NoLine,
              err |-> DockerfileError("fmt.Errorf", "unknown command: " \o ToUpper(parts[1]),
                                      0, 0, "")]
        ELSE [inst |-> [Command |-> ToUpper(parts[1]), Args |-> Tail(parts), Raw |-> line,
                        LineNum |-> p.currentLine, Set |-> TRUE],
              err |-> NoError]

NewDockerfileParser == [currentLine |-> 0, continued |-> FALSE, buffer |-> ""]

\* The physical lines of the files.
FileLines == {"RUN a", "RUN a \\", " b", "", "#c", "run \"a b\"", "BAD x", "\\"}

InitParseFile ==
    /\ input = <<>>
    /\ l = NewDockerfileParser
    /\ pc = "ParseFile"
    /\ continuationMode = FALSE
    /\ instructions = <<>>
    /\ delivered = [pending |-> {}, lines |-> <<>>]
    /\ lineStart = 0
    /\ iterStart = 0
    /\ tokens = NoTokens
    /\ result = NoResult
    /\ caller = <<>>
    /\ stages = NoStages
    /\ variables = <<>>
    /\ \E lines \in BoundedSeq(FileLines, MaxLines), newline \in {"", "\n"} :
          sc = [NoScanner EXCEPT !.src = Join(lines, "\n") \o newline]
    /\ scanned = NoScanned

\* One iteration of the loop of ParseFile, or its return after the last
\* line.  The error of parseLine is returned with the line number.
ParseFileStep ==
    /\ pc = "ParseFile"
    /\ IF l.currentLine >= Len(ScanLines(sc.src))
       THEN /\ pc' = "ParseFile.return"
            /\ UNCHANGED <<l, instructions, delivered, result>>
       ELSE LET p == [l EXCEPT !.currentLine = @ + 1]
                line == ScanLines(sc.src)[p.currentLine]
                joined == IF p.continued THEN p.buffer \o line ELSE line
                parsed == parseLine(p, joined)
            IN  IF TrimSpace(line) = "" \/ HasPrefix(TrimSpace(line), "#")
                THEN /\ l' = p
                     /\ UNCHANGED <<pc, instructions, delivered, result>>
                ELSE IF HasSuffix(line, "\\")
                THEN /\ l' = [p EXCEPT !.buffer = @ \o TrimSuffix(line, "\\"),
                                       !.continued = TRUE]
                     /\ delivered' = [delivered EXCEPT !.pending = @ \cup {p.currentLine}]
                     /\ UNCHANGED <<pc, instructions, result>>
                ELSE /\ l' = IF p.continued
                             THEN [p EXCEPT !.buffer = "", !.continued = FALSE]
                             ELSE p
                     /\ IF parsed.err # NoError
                        THEN /\ result' = [inst |-> NilInstruction,
                                            err |-> [parsed.err EXCEPT
                                                        !.Line = p.currentLine]]
                             /\ instructions' = <<>>
                             /\ pc' = "ParseFile.return"
                             /\ UNCHANGED delivered
                        ELSE /\ instructions' = IF parsed.inst.Set
                                                THEN Append(instructions, parsed.inst)
                                                ELSE instructions
                             /\ delivered' =
                                   [pending |-> IF p.continued THEN {} ELSE delivered.pending,
                                    lines |-> IF parsed.inst.Set
                                              THEN Append(delivered.lines,
                                                     (IF p.continued THEN delivered.pending
                                                      ELSE {}) \cup {p.currentLine})
                                              ELSE delivered.lines]
                             /\ UNCHANGED <<pc, result>>
    /\ UNCHANGED <<sc, scanned, caller, stages, variables, input, continuationMode,
                   lineStart, iterStart, tokens>>

NextParseFile == ParseFileStep

SpecParseFile == InitParseFile /\ [][NextParseFile]_vars

(***************************************************************************)
(* Logical lines, stated on a sequence of token types: position j ends a   *)
(* line when it holds EOF, or a NEWLINE with no CONTINUATION between the   *)
(* previous NEWLINE and it.                                                *)
(***************************************************************************)
PrevNewline(types, j) ==
    LET nls == {k \in 1..(j - 1) : types[k] = "TOKEN_NEWLINE"}
    IN  IF nls = {} THEN 0 ELSE CHOOSE k \in nls : \A m \in nls : m <= k

EndsLineAt(types, j) ==
    \/ types[j] = "TOKEN_EOF"
    \/ /\ types[j] = "TOKEN_NEWLINE"
       /\ \A k \in (PrevNewline(types, j) + 1)..(j - 1) : types[k] # "TOKEN_CONTINUATION"

LineEnds(types) == {j \in 1..Len(types) : EndsLineAt(types, j)}

FirstLineEnd(types) ==
    IF LineEnds(types) = {} THEN Len(types)
    ELSE CHOOSE j \in LineEnds(types) : \A k \in LineEnds(types) : j <= k

TypesOf(toks) == [i \in 1..Len(toks) |-> toks[i].Type]

\* The positions of input that hold no whitespace, in order.
RECURSIVE SignificantFrom(_)
SignificantFrom(i) ==
    IF i > Len(input) THEN <<>>
    ELSE (IF input[i].Type = "TOKEN_WHITESPACE" THEN <<>> ELSE <<i>>) \o SignificantFrom(i + 1)

InputTypes(idxs) == [k \in 1..Len(idxs) |-> input[idxs[k]].Type]

\* The logical lines of the input, each the sequence of its positions.
RECURSIVE SplitLines(_)
SplitLines(idxs) ==
    IF Len(idxs) = 0 THEN <<>>
    ELSE LET e == FirstLineEnd(InputTypes(idxs))
         IN  <<SubSeq(idxs, 1, e)>> \o SplitLines(SubSeq(idxs, e + 1, Len(idxs)))

InputLines == SplitLines(SignificantFrom(1))

StartsWithInstruction(line) == IsInstructionType(input[line[1]].Type)

\* A line that starts with a token that is no instruction, comment or newline.
StartsWithArgument(line) ==
    /\ ~StartsWithInstruction(line)
    /\ input[line[1]].Type \notin {"TOKEN_COMMENT", "TOKEN_NEWLINE", "ERR"}

HasScanFailure(line) == \E k \in 1..Len(line) : input[line[k]] = ScanFailure

NoScanFailure == \A i \in 1..Len(input) : input[i] # ScanFailure

\* The line has been returned as an InstructionTokens.
Returned(line) ==
    \E k \in 1..Len(instructions) : instructions[k].Instruction = TokenAt(line[1])

\* C1: ProcessAllInstructions: after a logical line that fails with 'Line
\* must start with an instruction', every later logical line that starts
\* with an instruction keyword is still returned as an InstructionTokens.
C1_LaterLinesReturned ==
    (pc = "ProcessAllInstructions.return" /\ NoScanFailure) =>
        \A i \in 1..Len(InputLines) : \A j \in (i + 1)..Len(InputLines) :
            (StartsWithArgument(InputLines[i]) /\ StartsWithInstruction(InputLines[j]))
                => Returned(InputLines[j])

\* C2: after a scan error in the middle of the input only the logical line
\* holding the bad token is abandoned: the instructions of all following
\* lines are still returned by ProcessAllInstructions.
C2_LinesAfterScanErrorReturned ==
    pc = "ProcessAllInstructions.return" =>
        \A i \in 1..Len(InputLines) : \A j \in (i + 1)..Len(InputLines) :
            (/\ HasScanFailure(InputLines[i])
             /\ StartsWithInstruction(InputLines[j])
             /\ \A k \in (i + 1)..j : ~HasScanFailure(InputLines[k]))
                => Returned(InputLines[j])

\* C3: the number of InstructionTokens returned by ProcessAllInstructions
\* equals the number of logical lines of the input whose first token is an
\* instruction keyword.
C3_InstructionCount ==
    (pc = "ProcessAllInstructions.return" /\ NoScanFailure) =>
        Len(instructions) =
            Cardinality({i \in 1..Len(InputLines) : StartsWithInstruction(InputLines[i])})

\* C4: ProcessAllInstructions and TokenizeAll terminate: every loop
\* iteration, the error path included, has consumed at least one real
\* token, and the loop is eventually left with the current token being EOF.
C4_Terminates ==
    /\ [](pc \in {"ProcessInstructionLine", "skip"} =>
            /\ Len(delivered) > iterStart
            /\ delivered[iterStart + 1].Type # "TOKEN_EOF")
    /\ [][pc = "TokenizeAll" /\ pc' = "TokenizeAll" =>
            /\ Len(delivered') > Len(delivered)
            /\ delivered'[Len(delivered')].Type # "TOKEN_EOF"]_vars
    /\ <>(/\ pc \in {"ProcessAllInstructions.return", "TokenizeAll.return"}
          /\ l.currentToken.Type = "TOKEN_EOF")

\* The error path has been taken and the operation has returned.
C4_Witness ==
    /\ pc = "ProcessAllInstructions.return"
    /\ Len(l.errors) > 0
    /\ Len(instructions) > 0
    /\ l.currentToken.Type = "TOKEN_EOF"

\* What NextToken has returned since TokenizeLine was entered.
LineDelivered == SubSeq(delivered, lineStart + 1, Len(delivered))

CountType(toks, type) == Cardinality({i \in 1..Len(toks) : toks[i].Type = type})

\* C5: TokenizeLine returns the tokens up to and including the first NEWLINE
\* with no CONTINUATION since the previous NEWLINE of the line, or up to
\* EOF; each CONTINUATION absorbs one NEWLINE at most, and the lines joined
\* by continuations come back as one group.
C5_TokenizeLine ==
    /\ pc = "TokenizeLine" => LineEnds(TypesOf(LineDelivered)) = {}
    /\ pc = "ProcessInstructionLine" =>
        LET got == LineDelivered
            last == got[Len(got)]
        IN  /\ Len(got) > 0
            /\ FirstLineEnd(TypesOf(got)) = Len(got)
            /\ EndsLineAt(TypesOf(got), Len(got))
            /\ l.lineTokens = IF last.Type = "TOKEN_EOF"
                              THEN SubSeq(got, 1, Len(got) - 1) ELSE got
            /\ last.Type = "TOKEN_NEWLINE" =>
                 CountType(got, "TOKEN_NEWLINE") - 1 <= CountType(got, "TOKEN_CONTINUATION")

\* Two physical lines joined by a continuation have come back as one group.
C5_Witness ==
    /\ pc = "ProcessInstructionLine"
    /\ Len(l.lineTokens) >= 4
    /\ l.lineTokens[2].Type = "TOKEN_CONTINUATION"
    /\ l.lineTokens[3].Type = "TOKEN_NEWLINE"
    /\ l.lineTokens[Len(l.lineTokens)].Type = "TOKEN_NEWLINE"

(***************************************************************************)
(* Properties of ParseInstruction.                                         *)
(***************************************************************************)
\* The argument tokens that are not whitespace.
Words(it) == SelectSeq(it.Arguments, NotWhitespace)

\* The first non-whitespace token after the keyword opens a [ array.
OpensArray(it) ==
    LET after == SelectSeq(Tail(it.Raw), NotWhitespace)
    IN  Len(after) > 0 /\ HasPrefix(after[1].Value, "[")

\* C6: for a line taken through ProcessInstructionLine and ParseInstruction
\* JSON form is decided by position: JSONForm is true exactly when the first
\* non-whitespace token after the keyword opens a [ array, so that
\* CMD ["a","b c","d"] has Args = [a, b c, d] and CMD echo hi has
\* Args = ["echo hi"].
C6_JSONFormPositional ==
    (pc = "parsed" /\ tokens.Instruction.Value = "CMD") =>
        /\ tokens.JSONForm = OpensArray(tokens)
        /\ result.err = NoError => result.inst.JSONForm = OpensArray(tokens)
        /\ ValuesOf(Words(tokens)) = <<JSONABCD.Value>> =>
               result.inst.Args = <<"a", "b c", "d">>
        /\ ValuesOf(Words(tokens)) = <<"echo", "hi">> =>
               result.inst.Args = <<"echo hi">>

\* What the texts of the model decode to as a JSON list of strings.
DecodesTo(text) ==
    CASE text = JSONABCD.Value -> <<"a", "b c", "d">>
      [] text = JSONESCAPED.Value -> <<"a\"]", "">>

Decodable == {JSONABCD.Value, JSONESCAPED.Value}

InJSONForm ==
    /\ pc = "parsed"
    /\ tokens.JSONForm
    /\ tokens.Instruction.Value \in {"RUN", "CMD", "ENTRYPOINT", "VOLUME", "SHELL"}
    /\ Len(Words(tokens)) > 0
    /\ Words(tokens)[1].Raw # ""

\* C7: for an instruction in JSON form (RUN, CMD, ENTRYPOINT, VOLUME, SHELL)
\* whose bracketed text does not decode as a JSON list of strings,
\* ParseInstruction returns no Instruction and a SyntaxError with the text
\* as snippet; when the text decodes, Args is the decoded list in order.
C7_JSONArrayDecoding ==
    InJSONForm =>
        LET text == Words(tokens)[1].Raw
        IN  IF text \in Decodable
            THEN /\ result.err = NoError
                 /\ result.inst.Args = DecodesTo(text)
                 /\ result.inst.JSONForm
            ELSE /\ result.inst = NilInstruction
                 /\ result.err.Code = "CodeSyntaxError"
                 /\ result.err.Snippet = text

C7_Witness ==
    /\ InJSONForm
    /\ Words(tokens)[1].Raw = JSONINVALID.Value
    /\ result.inst = NilInstruction
    /\ result.err.Code = "CodeSyntaxError"

\* A flag of ADD/COPY: a string token that starts with --.
IsFromFlag(t) == t.Type = "TOKEN_STRING" /\ HasPrefix(t.Value, "--from=")
IsChownFlag(t) == t.Type = "TOKEN_STRING" /\ HasPrefix(t.Value, "--chown=")
IsChmodFlag(t) == t.Type = "TOKEN_STRING" /\ HasPrefix(t.Value, "--chmod=")
IsPositional(t) ==
    /\ t.Type # "TOKEN_WHITESPACE"
    /\ ~(t.Type = "TOKEN_STRING" /\ HasPrefix(t.Value, "--"))

Positionals(it) == SelectSeq(it.Arguments, IsPositional)
FromFlags(it) == SelectSeq(it.Arguments, IsFromFlag)

AddWithFrom ==
    /\ pc = "parsed"
    /\ tokens.Instruction.Value = "ADD"
    /\ Len(FromFlags(tokens)) > 0

\* C8 as stated: every ADD with a --from= flag, whatever the number of its
\* positional arguments, is rejected with an InstructionError that cites
\* the --from flag.
C8_AddFromAlwaysCited ==
    AddWithFrom =>
        /\ result.inst = NilInstruction
        /\ result.err.Code = "CodeInstructionError"
        /\ result.err.Message = "ADD does not support the --from flag"

\* C8 as amended: every ADD with a --from= flag is rejected with an
\* InstructionError; the error cites the --from flag when at least two
\* positional arguments remain, and is the missing source/destination
\* error otherwise.
C8_AddFromRejected ==
    AddWithFrom =>
        /\ result.inst = NilInstruction
        /\ result.err.Code = "CodeInstructionError"
        /\ result.err.Message =
              IF Len(Positionals(tokens)) >= 2
              THEN "ADD does not support the --from flag"
              ELSE "ADD instruction requires at least source and destination"

C8_Witness ==
    /\ AddWithFrom
    /\ Len(Positionals(tokens)) >= 2
    /\ result.err.Message = "ADD does not support the --from flag"

\* The value a flag map must hold for a flag: that of its last occurrence.
LastValue(flags, prefix) == TrimPrefix(flags[Len(flags)].Value, prefix)

FlagHolds(it, inst, key, Test(_), prefix) ==
    LET given == SelectSeq(it.Arguments, Test)
    IN  IF Len(given) = 0 THEN key \notin DOMAIN inst.Flags
        ELSE key \in DOMAIN inst.Flags /\ inst.Flags[key] = LastValue(given, prefix)

\* C9: COPY parses exactly when at least two positional arguments remain
\* once the flags are taken out; then Args is the positional arguments in
\* source order, Flags holds the chown/from/chmod values and Dependencies
\* the value of each --from= flag.
C9_Copy ==
    (pc = "parsed" /\ tokens.Instruction.Value = "COPY") =>
        /\ result.err = NoError <=> Len(Positionals(tokens)) >= 2
        /\ result.err # NoError =>
              result.inst = NilInstruction /\ result.err.Code = "CodeInstructionError"
        /\ result.err = NoError =>
              /\ result.inst.Args = ValuesOf(Positionals(tokens))
              /\ \A i \in 1..Len(result.inst.Args) : ~HasPrefix(result.inst.Args[i], "--")
                     \/ Positionals(tokens)[i].Type # "TOKEN_STRING"
              /\ DOMAIN result.inst.Flags \subseteq {"chown", "from", "chmod"}
              /\ FlagHolds(tokens, result.inst, "chown", IsChownFlag, "--chown=")
              /\ FlagHolds(tokens, result.inst, "from", IsFromFlag, "--from=")
              /\ FlagHolds(tokens, result.inst, "chmod", IsChmodFlag, "--chmod=")
              /\ result.inst.Dependencies =
                     [i \in 1..Len(FromFlags(tokens)) |->
                         TrimPrefix(FromFlags(tokens)[i].Value, "--from=")]

\* COPY --from=builder /src /dst
C9_Witness ==
    /\ pc = "parsed"
    /\ tokens.Instruction.Value = "COPY"
    /\ ValuesOf(Words(tokens)) = <<"--from=builder", "/src", "/dst">>
    /\ result.err = NoError
    /\ result.inst.Args = <<"/src", "/dst">>
    /\ result.inst.Dependencies = <<"builder">>

\* The trigger of an ONBUILD: the first non-whitespace argument.
Trigger(it) == IF Len(Words(it)) = 0 THEN "" ELSE Words(it)[1].Value

\* The argument string is empty: there is no non-whitespace argument, or a
\* single one with an empty value.
EmptyArguments(it) ==
    \/ Len(Words(it)) = 0
    \/ Len(Words(it)) = 1 /\ Words(it)[1].Value = ""

WellFormedPorts == {"80", "70000", "80/tcp", "53/udp"}

Exposed == pc = "parsed" /\ tokens.Instruction.Value = "EXPOSE"

\* C11: EXPOSE parses exactly when there is at least one port token and
\* every port token is an integer optionally followed by exactly /tcp or
\* /udp; there is no range check (70000 passes); on success Args is the
\* port tokens in source order; a failure is an InstructionError.
C11_Expose ==
    Exposed =>
        /\ result.err = NoError <=>
              /\ Len(Words(tokens)) >= 1
              /\ \A i \in 1..Len(Words(tokens)) : Words(tokens)[i].Value \in WellFormedPorts
        /\ result.err = NoError => result.inst.Args = ValuesOf(Words(tokens))
        /\ result.err # NoError =>
              result.inst = NilInstruction /\ result.err.Code = "CodeInstructionError"

Healthchecked == pc = "parsed" /\ tokens.Instruction.Value = "HEALTHCHECK"

IsCmdWord(t) == t.Type # "TOKEN_WHITESPACE" /\ t.Value = "CMD"

\* The values of the non-whitespace arguments after position c.
WordsAfter(it, c) ==
    ValuesOf(SelectSeq(SubSeq(it.Arguments, c + 1, Len(it.Arguments)), NotWhitespace))

\* C12 as stated: HEALTHCHECK gives Args = [NONE] when the first argument is
\* NONE; otherwise it fails with 'HEALTHCHECK requires CMD or NONE' exactly
\* when no argument token has the value CMD.
C12_HealthcheckAnyCmd ==
    Healthchecked =>
        IF FirstArg(tokens) = "NONE"
        THEN result.err = NoError /\ result.inst.Args = <<"NONE">>
        ELSE /\ result.err # NoError <=> Len(SelectSeq(tokens.Arguments, IsCmdWord)) = 0
             /\ result.err # NoError =>
                   /\ result.inst = NilInstruction
                   /\ result.err.Code = "CodeInstructionError"
                   /\ result.err.Message = "HEALTHCHECK requires CMD or NONE"

\* Position k holds the value of a flag: the token before it starts with
\* --, is not itself such a value, and position k is not whitespace.
RECURSIVE IsFlagValue(_, _)
IsFlagValue(arguments, k) ==
    /\ k > 1
    /\ arguments[k].Type # "TOKEN_WHITESPACE"
    /\ arguments[k - 1].Type # "TOKEN_WHITESPACE"
    /\ HasPrefix(arguments[k - 1].Value, "--")
    /\ ~IsFlagValue(arguments, k - 1)

\* The positions of a CMD that is not the value of a flag.
CmdPositions(it) ==
    {k \in 1..Len(it.Arguments) :
        IsCmdWord(it.Arguments[k]) /\ ~IsFlagValue(it.Arguments, k)}

FirstCmd(it) == CHOOSE k \in CmdPositions(it) : \A j \in CmdPositions(it) : k <= j

\* The flag/value pairs before position c.
FlagPairs(it, c) ==
    {k \in 2..(c - 1) : IsFlagValue(it.Arguments, k)}

\* C12 as amended: HEALTHCHECK gives Args = [NONE] when the first argument
\* is NONE; otherwise it fails with 'HEALTHCHECK requires CMD or NONE'
\* exactly when no CMD token stands outside the value position of a flag;
\* when there is one, the flag/value pairs before it are in Flags and Args
\* ends with CMD and the tokens after it joined by single spaces.
C12_Healthcheck ==
    Healthchecked =>
        IF FirstArg(tokens) = "NONE"
        THEN result.err = NoError /\ result.inst.Args = <<"NONE">>
        ELSE /\ result.err # NoError <=> CmdPositions(tokens) = {}
             /\ result.err # NoError =>
                   /\ result.inst = NilInstruction
                   /\ result.err.Code = "CodeInstructionError"
                   /\ result.err.Message = "HEALTHCHECK requires CMD or NONE"
             /\ result.err = NoError =>
                   LET c == FirstCmd(tokens)
                       n == Len(result.inst.Args)
                   IN  /\ n >= 2
                       /\ result.inst.Args[n - 1] = "CMD"
                       /\ result.inst.Args[n] = Join(WordsAfter(tokens, c), " ")
                       /\ \A k \in FlagPairs(tokens, c) :
                             LET name == TrimPrefix(tokens.Arguments[k - 1].Value, "--")
                             IN  /\ name \in DOMAIN result.inst.Flags
                                 /\ \/ result.inst.Flags[name] = tokens.Arguments[k].Value
                                    \/ \E j \in FlagPairs(tokens, c) :
                                          /\ j > k
                                          /\ tokens.Arguments[j - 1].Value =
                                                 tokens.Arguments[k - 1].Value
                       /\ \A name \in DOMAIN result.inst.Flags :
                             \E k \in FlagPairs(tokens, c) :
                                /\ tokens.Arguments[k - 1].Value = "--" \o name
                                /\ tokens.Arguments[k].Value = result.inst.Flags[name]

\* HEALTHCHECK --interval 30s CMD curl
C12_Witness ==
    /\ Healthchecked
    /\ ValuesOf(tokens.Arguments) = <<"--interval", "30s", "CMD", "curl">>
    /\ result.err = NoError
    /\ result.inst.Args = <<"CMD", "curl">>
    /\ result.inst.Flags = [k \in {"interval"} |-> "30s"]

(***************************************************************************)
(* Properties of DetectStages and DetectVariables.                         *)
(***************************************************************************)
StartsWith(line, type) == input[line[1]].Type = type

IsFromLine(line) == StartsWith(line, "TOKEN_INSTRUCTION_FROM")

IsVariableLine(line) ==
    StartsWith(line, "TOKEN_INSTRUCTION_ARG") \/ StartsWith(line, "TOKEN_INSTRUCTION_ENV")

\* The logical lines of the input that are FROM instructions, in order.
FromLines == SelectSeq(InputLines, IsFromLine)

\* DetectStages has returned (to its caller, or into DetectVariables).
StagesReturned == pc \in {"DetectStages.return", "DetectVariables"}

\* C13: DetectStages on an input without errors returns one StageInfo per
\* FROM instruction, in source order, with Index 0, 1, 2, ...; without a
\* FROM the list is empty and there is no error.
C13_StagePerFrom ==
    (StagesReturned /\ l.errors = <<>>) =>
        /\ stages.err = NoError
        /\ Len(stages.stages) = Len(FromLines)
        /\ \A i \in 1..Len(stages.stages) :
              /\ stages.stages[i].Index = i - 1
              /\ stages.stages[i].StartLine = LineOf(FromLines[i][1])

\* Three FROM lines have given the stages 0, 1, 2.
C13_Witness ==
    /\ pc = "DetectStages.return"
    /\ l.errors = <<>>
    /\ Len(FromLines) = 3
    /\ Len(stages.stages) = 3
    /\ stages.stages[3].Index = 2

IsFromInstruction(it) == GetInstructionValue(it) = "FROM"

\* C14: with an erroneous line next to valid FROM lines, DetectStages still
\* returns the stages of the FROM lines that ProcessAllInstructions has
\* returned, and the recorded errors stay available.
C14_StagesDespiteErrors ==
    (StagesReturned /\ l.errors # <<>>) =>
        /\ Len(stages.stages) = Len(SelectSeq(instructions, IsFromInstruction))
        /\ \A i \in 1..Len(stages.stages) : stages.stages[i].Index = i - 1

\* The number of declarations of a line: its words after the keyword.
Declarations(line) ==
    Cardinality({k \in 2..Len(line) :
                    input[line[k]].Type \notin {"TOKEN_NEWLINE", "TOKEN_COMMENT"}})

RECURSIVE SumDeclarations(_)
SumDeclarations(lines) ==
    IF Len(lines) = 0 THEN 0
    ELSE Declarations(Head(lines)) + SumDeclarations(Tail(lines))

\* C15: DetectVariables returns one VariableInfo for every declaration of
\* every ARG/ENV instruction, with StageIdx = -1 exactly when the
\* instruction precedes the first FROM.
C15_VariablePerDeclaration ==
    (pc = "DetectVariables.return" /\ l.errors = <<>>) =>
        /\ Len(variables) = SumDeclarations(SelectSeq(InputLines, IsVariableLine))
        /\ \A i \in 1..Len(variables) :
              variables[i].StageIdx = -1 <=>
                  (Len(FromLines) = 0 \/ variables[i].Line < LineOf(FromLines[1][1]))

(***************************************************************************)
(* Properties of heredocs.                                                 *)
(***************************************************************************)
\* The lines of the heredoc source; the last piece is a line only when a
\* newline ends it, so the pieces before the last are the lines.
SourceLines == Split(sc.src, "\n")

TerminatorLines ==
    {k \in 1..(Len(SourceLines) - 1) : TrimSpace(SourceLines[k]) = sc.heredocWord}

HasTerminator == TerminatorLines # {}

FirstTerminator ==
    IF TerminatorLines = {} THEN 1
    ELSE CHOOSE k \in TerminatorLines : \A j \in TerminatorLines : k <= j

RECURSIVE BodyOf(_, _)
BodyOf(lines, k) ==
    IF k = 0 THEN "" ELSE BodyOf(lines, k - 1) \o lines[k] \o "\n"

\* The body lines before the terminating line, each with its newline.
Body == BodyOf(SourceLines, FirstTerminator - 1)

\* C16: in heredoc mode with identifier ID, scanHeredocContent returns a
\* HEREDOC_CONTENT token whose value is the body lines before the first
\* line whose trimmed content is ID, each with its newline; the terminating
\* line is consumed in full and heredoc mode is left.
C16_HeredocContent ==
    (pc = "scanHeredocContent" /\ HasTerminator) =>
        <>(/\ pc = "scanHeredocContent.return"
           /\ scanned.err = NoError
           /\ scanned.token.Type = "TOKEN_HEREDOC_CONTENT"
           /\ scanned.token.Value = Body
           /\ ~sc.inHeredoc
           /\ sc.pos = Len(Body) + Len(SourceLines[FirstTerminator]) + 1)

\* C17: a RUN line that opens a heredoc, taken through the lexer and
\* ParseInstruction, gives exactly one Instruction, with Heredoc set,
\* Identifier and Delimiter the heredoc identifier and Content the body,
\* and no error for the body.
C17_RunHeredoc ==
    (pc = "scanHeredocContent" /\ HasTerminator) =>
        <>(/\ pc = "parsed"
           /\ Len(instructions) = 1
           /\ l.errors = <<>>
           /\ result.err = NoError
           /\ result.inst.Command = "RUN"
           /\ result.inst.Heredoc.Set
           /\ result.inst.Heredoc.Identifier = sc.heredocWord
           /\ result.inst.Heredoc.Delimiter = sc.heredocWord
           /\ result.inst.Heredoc.Content = Body)

(***************************************************************************)
(* Properties of the diagnostics.                                          *)
(***************************************************************************)
\* C18: in the error list ProcessAllInstructions returns (scan errors and
\* line errors together) the line of an error is not smaller than the
\* line of the error recorded before it, and the returned
\* InstructionTokens come by increasing line.
C18_SourceOrder ==
    pc = "ProcessAllInstructions.return" =>
        /\ \A i \in 1..(Len(l.errors) - 1) : l.errors[i].Line <= l.errors[i + 1].Line
        /\ \A i \in 1..(Len(instructions) - 1) :
              instructions[i].Instruction.Line <= instructions[i + 1].Instruction.Line

\* C19: every error ParseInstruction returns is a DockerfileError with one
\* of the eight codes, positioned on the line of the offending instruction
\* or token; this includes the unknown instruction and the nil token.
C19_PositionedErrors ==
    (pc = "parsed" /\ result.err # NoError) =>
        /\ result.err.Code \in ErrorCodes
        /\ result.err.Line >= 1
        /\ tokens.Instruction # NoToken => result.err.Line = tokens.Instruction.Line

\* C20: in every reachable lexer state PeekToken returns the token that the
\* immediately following NextToken call returns (PeekToken itself changes
\* nothing: it only reads l.peekToken).
C20_PeekIsNext == PeekToken(l) = NextToken(l).token

(***************************************************************************)
(* Properties of ProcessInstructionLine and of the token stream.           *)
(***************************************************************************)
\* A blank line (one NEWLINE) or a line that starts with a comment.
IsBlankLine(toks) == Len(toks) = 1 /\ toks[1].Type = "TOKEN_NEWLINE"
IsCommentLine(toks) == Len(toks) > 0 /\ toks[1].Type = "TOKEN_COMMENT"

\* C21: a blank line (a logical line consisting only of NEWLINE) or a
\* comment-only line yields neither an InstructionTokens nor an error:
\* the step that handles its result leaves both lists as they were.
C21_BlankLines ==
    [][(pc = "ProcessInstructionLine"
        /\ (IsBlankLine(l.lineTokens) \/ IsCommentLine(l.lineTokens)))
       => (instructions' = instructions /\ l'.errors = l.errors)]_vars

\* The positions of toks after the first whose token passes the test.
KeptPositions(toks, Keep(_)) == {i \in 2..Len(toks) : Keep(toks[i])}

\* sub is the subsequence of the tokens of toks after the first that pass
\* the test, in the order of toks.
IsKeptSubsequence(sub, toks, Keep(_)) ==
    /\ Len(sub) = Cardinality(KeptPositions(toks, Keep))
    /\ \A i \in KeptPositions(toks, Keep) :
          sub[Cardinality({j \in KeptPositions(toks, Keep) : j <= i})] = toks[i]

\* The tokens of the line NextToken has returned: all but a closing EOF.
DeliveredLine ==
    IF Len(LineDelivered) > 0 /\ LineDelivered[Len(LineDelivered)].Type = "TOKEN_EOF"
    THEN SubSeq(LineDelivered, 1, Len(LineDelivered) - 1)
    ELSE LineDelivered

IsPlainArgument(t) ==
    t.Type \notin {"TOKEN_COMMENT", "TOKEN_NEWLINE", "TOKEN_CONTINUATION"}

C23_NoWhitespace ==
    /\ \A i \in 1..Len(delivered) : delivered[i].Type # "TOKEN_WHITESPACE"
    /\ \A k \in 1..Len(instructions) : \A i \in 1..Len(instructions[k].Arguments) :
          instructions[k].Arguments[i].Type # "TOKEN_WHITESPACE"

\* C24: once NextToken has delivered an EOF token every later NextToken
\* call returns EOF as well, also when the EOF stood for a scan error.
C24_EOFAbsorbing ==
    \A i \in 1..Len(delivered) : \A j \in (i + 1)..Len(delivered) :
        delivered[i].Type = "TOKEN_EOF" => delivered[j].Type = "TOKEN_EOF"

\* The body of a heredoc has been delivered: NextToken has returned a
\* HEREDOC_START token and, after it, a HEREDOC_CONTENT token.
HeredocBodyDelivered ==
    \E i \in 1..Len(delivered) : \E j \in (i + 1)..Len(delivered) :
        /\ delivered[i].Type = "TOKEN_HEREDOC_START"
        /\ delivered[j].Type = "TOKEN_HEREDOC_CONTENT"

\* C25: after the body of a heredoc has been delivered (a HEREDOC_START
\* token followed by its content) the Lexer has left heredoc mode: its
\* inHeredoc flag is false again.
C25_LeavesHeredocMode == HeredocBodyDelivered => ~l.inHeredoc


\* C26: peekLine terminates for every remaining input, and so does
\* scanHeredocContent: it returns the content when the terminating line
\* exists and an error when the input ends first.
C26_PeekLineTerminates ==
    /\ (pc = "peekLine") ~> (pc # "peekLine")
    /\ <>(/\ pc = "scanHeredocContent.return"
          /\ scanned.err = NoError <=> HasTerminator)

(***************************************************************************)
(* Properties of the stage ranges.                                         *)
(***************************************************************************)
\* DetectStages has returned a stage list, not an error.
StagesListed == StagesReturned /\ stages.err = NoError

\* The stages whose line range holds the line.
StagesHolding(line) ==
    {i \in 1..Len(stages.stages) :
        stages.stages[i].StartLine <= line /\ line <= stages.stages[i].EndLine}

\* The logical lines of the input that are instructions, in order.
InstructionLines == SelectSeq(InputLines, StartsWithInstruction)

\* C27: each FROM closes the previous stage with EndLine = (line of the new
\* FROM) - 1 and opens a stage with StartLine = the FROM's line; the last
\* stage's EndLine is the line of the last instruction; hence for all
\* stages StartLine <= EndLine, the ranges of different stages are disjoint
\* and ordered, and every instruction at or after the first FROM lies in
\* exactly one stage range.
C27_StageRanges ==
    StagesListed =>
        LET st == stages.stages
            n == Len(st)
        IN  /\ n = Len(FromLines)
            /\ \A i \in 1..n : st[i].StartLine = LineOf(FromLines[i][1])
            /\ \A i \in 1..(n - 1) : st[i].EndLine = LineOf(FromLines[i + 1][1]) - 1
            /\ n > 0 => st[n].EndLine =
                            LineOf(InstructionLines[Len(InstructionLines)][1])
            /\ \A i \in 1..n : st[i].StartLine <= st[i].EndLine
            /\ \A i \in 1..n : \A j \in (i + 1)..n : st[i].EndLine < st[j].StartLine
            /\ \A k \in 1..Len(instructions) :
                  (n > 0 /\ instructions[k].Instruction.Line >= st[1].StartLine)
                      => Cardinality(StagesHolding(instructions[k].Instruction.Line)) = 1

\* Two stages, the first closed by the second FROM, the second closed by a
\* later instruction that is not a FROM.
C27_Witness ==
    /\ pc = "DetectStages.return"
    /\ stages.err = NoError
    /\ Len(stages.stages) = 2
    /\ stages.stages[1].EndLine = stages.stages[2].StartLine - 1
    /\ stages.stages[2].EndLine > stages.stages[2].StartLine

\* The first argument of a FROM line of the input that does not start
\* with --, "" when there is none.
FirstNonFlag(line) ==
    LET plain == {k \in 2..Len(line) :
                     /\ input[line[k]].Type \notin {"TOKEN_NEWLINE", "TOKEN_CONTINUATION",
                                                     "TOKEN_COMMENT"}
                     /\ ~HasPrefix(input[line[k]].Value, "--")}
    IN  IF plain = {} THEN ""
        ELSE input[line[CHOOSE k \in plain : \A j \in plain : k <= j]].Value

\* The value of the token after the AS keyword of a line, "" without AS.
NameAfterAs(line) ==
    LET as == {k \in 2..(Len(line) - 1) :
                  /\ input[line[k]].Type = "TOKEN_AS"
                  /\ input[line[k + 1]].Type \notin {"TOKEN_NEWLINE", "TOKEN_COMMENT"}}
    IN  IF as = {} THEN ""
        ELSE input[line[(CHOOSE k \in as : \A j \in as : k <= j) + 1]].Value

\* C28: DetectStages sets each stage's BaseImage to the first non-flag
\* argument of its FROM (the image in FROM --platform=p image AS name) and
\* its Name to the token immediately following the AS keyword, or empty
\* when there is no AS.
C28_BaseImageAndName ==
    StagesListed =>
        \A i \in 1..Len(stages.stages) :
            /\ stages.stages[i].BaseImage = FirstNonFlag(FromLines[i])
            /\ stages.stages[i].Name = NameAfterAs(FromLines[i])

(***************************************************************************)
(* Properties of FROM and of the dispatch on the keyword.                  *)
(***************************************************************************)
FromParsed == pc = "parsed" /\ tokens.Instruction.Value = "FROM"

IsNoFlag(t) == NotWhitespace(t) /\ ~HasPrefix(t.Value, "--")

\* The arguments of the line that are not a -- flag.
NonFlags(it) == SelectSeq(it.Arguments, IsNoFlag)

IsPlatformFlag(t) == NotWhitespace(t) /\ HasPrefix(t.Value, "--platform=")

\* C29: FROM fails with an InstructionError exactly when the instruction
\* has no argument; whenever it succeeds Args has exactly one element, the
\* base image, which is the first argument that is not a -- flag (never
\* the stage name after AS), Flags[stage] is the token after AS when
\* present and Flags[platform] the value of --platform= when present.
C29_From ==
    FromParsed =>
        /\ result.err # NoError <=> Len(tokens.Arguments) = 0
        /\ result.err # NoError =>
              result.inst = NilInstruction /\ result.err.Code = "CodeInstructionError"
        /\ result.err = NoError =>
              /\ Len(result.inst.Args) = 1
              /\ Len(NonFlags(tokens)) > 0
              /\ result.inst.Args[1] = NonFlags(tokens)[1].Value
              /\ AsPositions(tokens.Arguments) # {} =>
                    /\ "stage" \in DOMAIN result.inst.Flags
                    /\ result.inst.Flags["stage"] =
                           tokens.Arguments[Least(AsPositions(tokens.Arguments)) + 1].Value
              /\ Len(SelectSeq(tokens.Arguments, IsPlatformFlag)) > 0 =>
                    /\ "platform" \in DOMAIN result.inst.Flags
                    /\ result.inst.Flags["platform"] =
                           TrimPrefix(SelectSeq(tokens.Arguments, IsPlatformFlag)[1].Value,
                                      "--platform=")

\* C30: every instruction keyword the Lexer accepts as a line start has a
\* validation routine in ParseInstruction: an InstructionTokens whose first
\* token is an instruction keyword never fails with 'unknown instruction'.
C30_EveryKeywordParsed ==
    (pc = "parsed" /\ tokens.Instruction # NoToken /\ IsInstruction(tokens.Instruction)) =>
        ~HasPrefix(result.err.Message, "unknown instruction")

(***************************************************************************)
(* Properties of the key-value pairs of LABEL and ENV.                     *)
(***************************************************************************)
\* What the pair texts of the model stand for: the key and the value with
\* the enclosing quotes removed.
PairKey(text) ==
    CASE text = KEYVALUE.Value -> "k"
      [] text = PAIRAB.Value -> "a"
      [] text = PAIREMPTY.Value -> "e"
      [] text = PAIRQUOTED.Value -> "q"
      [] text = PAIRESCAPED.Value -> "r"

PairValue(text) ==
    CASE text = KEYVALUE.Value -> "v"
      [] text = PAIRAB.Value -> "b"
      [] text = PAIREMPTY.Value -> ""
      [] text = PAIRQUOTED.Value -> "x y"
      [] text = PAIRESCAPED.Value -> "x\"=y"

\* A LABEL or ENV line with at least one pair, the keys distinct, has been
\* parsed.
PairsParsed ==
    /\ pc = "parsed"
    /\ tokens.Instruction.Value \in {"LABEL", "ENV"}
    /\ Len(Words(tokens)) > 0
    /\ \A i, j \in 1..Len(Words(tokens)) :
          Words(tokens)[i].Value = Words(tokens)[j].Value => i = j

\* The pairs of the line as a map from key to value.
PairsOf(it) ==
    [key \in {PairKey(Words(it)[i].Value) : i \in 1..Len(Words(it))} |->
        PairValue(Words(it)[CHOOSE i \in 1..Len(Words(it)) :
                                PairKey(Words(it)[i].Value) = key].Value)]

\* C31: for k space-separated KEY=VALUE pairs with distinct keys, the value
\* empty, bare or quoted, parseKeyValuePairs returns exactly k entries that
\* map each KEY to its VALUE with the enclosing quotes removed; a pair with
\* an empty value followed by another pair yields two entries.
C31_KeyValuePairs ==
    PairsParsed =>
        /\ parseKeyValuePairs(GetArgumentsAsString(tokens)) = PairsOf(tokens)
        /\ result.err = NoError
        /\ Len(result.inst.Args) = Len(Words(tokens))


\* The pairs of the line in their source order, as LABEL and ENV write them
\* to Args.
SourceOrderArgs(it) ==
    [i \in 1..Len(Words(it)) |->
        PairKey(Words(it)[i].Value) \o "=" \o PairValue(Words(it)[i].Value)]

\* C32: for a LABEL or ENV instruction with several key-value pairs, every
\* parse of the same tokens gives the same Args sequence, and it lists the
\* pairs in their source order.
C32_SourceOrder ==
    (/\ PairsParsed
     /\ Len(Words(tokens)) >= 2
     /\ parseKeyValuePairs(GetArgumentsAsString(tokens)) = PairsOf(tokens))
        => result.inst.Args = SourceOrderArgs(tokens)


(***************************************************************************)
(* Properties of scanJSONArray and scanVariable.                           *)
(***************************************************************************)
\* Where the text stands after its first i characters: inside a string
\* opened by quote ("" outside every string), the last character a
\* backslash that takes the next one with it.
RECURSIVE StringStateAt(_, _)
StringStateAt(text, i) ==
    IF i = 0 THEN [quote |-> "", escaped |-> FALSE]
    ELSE LET before == StringStateAt(text, i - 1)
             ch == CharAt(text, i)
         IN  IF before.quote = ""
             THEN IF ch \in {"\"", "'"} THEN [quote |-> ch, escaped |-> FALSE] ELSE before
             ELSE IF before.escaped THEN [before EXCEPT !.escaped = FALSE]
             ELSE IF ch = "\\" THEN [before EXCEPT !.escaped = TRUE]
             ELSE IF ch = before.quote THEN [quote |-> "", escaped |-> FALSE]
             ELSE before

\* The positions up to i that hold the bracket ch outside every string.
BracketsBefore(text, i, ch) ==
    {j \in 1..i : CharAt(text, j) = ch /\ StringStateAt(text, j - 1).quote = ""}

BracketDepth(text, i) ==
    Cardinality(BracketsBefore(text, i, "[")) - Cardinality(BracketsBefore(text, i, "]"))

JSONArrayReturned == caller = <<"scanJSONArray">> /\ scanned.err = NoError

\* C33: the token that scanJSONArray returns runs from the "[" it started
\* at through the "]" that brings the bracket depth back to 0, brackets
\* inside single- or double-quoted strings not counted and a
\* backslash-escaped quote not ending the string.
C33_BracketDepth ==
    JSONArrayReturned =>
        LET text == scanned.token.Value
        IN  /\ scanned.token.Type = "TOKEN_STRING"
            /\ Len(text) >= 2
            /\ text = SubSeq(sc.src, sc.pos - Len(text) + 1, sc.pos)
            /\ CharAt(text, 1) = "["
            /\ CharAt(text, Len(text)) = "]"
            /\ StringStateAt(text, Len(text)).quote = ""
            /\ BracketDepth(text, Len(text)) = 0
            /\ \A i \in 1..(Len(text) - 1) : BracketDepth(text, i) > 0

\* An array whose string holds an escaped quote and a "]" was returned.
C33_Witness ==
    /\ JSONArrayReturned
    /\ scanned.token.Value = "[\"\\\"]\"]"

\* The name a recorded variable text stands for.
VariableName(text) ==
    IF HasPrefix(text, "${")
    THEN SubSeq(text, 3, IF CharAt(text, Len(text)) = "}" THEN Len(text) - 1 ELSE Len(text))
    ELSE SubSeq(text, 2, Len(text))

\* C34: scanVariable returns a SyntaxError with no token, or a VARIABLE
\* token whose name is recorded; the scanner's variables set holds one
\* entry per distinct variable name, $NAME and ${NAME} being the same name.
C34_Variables ==
    /\ (caller = <<"scanVariable">> /\ scanned.err.Code = "CodeSyntaxError")
          => scanned.token = NoToken
    /\ (caller = <<"scanVariable">> /\ scanned.err = NoError)
          => /\ scanned.token.Type = "TOKEN_VARIABLE"
             /\ scanned.token.Value \in sc.variables
    /\ \A v, w \in sc.variables : VariableName(v) = VariableName(w) => v = w

\* The part of C34 on the ${...} form alone: an invalid character before
\* the closing brace gives a SyntaxError, no token, and records nothing.
BracedInvalidAt(src, pos) ==
    /\ pos >= 1
    /\ pos + 1 <= Len(src)
    /\ SubSeq(src, pos, pos + 1) = "${"
    /\ \E j \in (pos + 2)..Len(src) :
          /\ ~isValidVariableChar(CharAt(src, j))
          /\ CharAt(src, j) # "}"
          /\ \A k \in (pos + 2)..(j - 1) : isValidVariableChar(CharAt(src, k))

BracedInvalidRejected ==
    [][(caller' = <<"scanVariable">> /\ sc.char = "$" /\ BracedInvalidAt(sc.src, sc.pos))
          => /\ scanned'.err.Code = "CodeSyntaxError"
             /\ scanned'.token = NoToken
             /\ sc'.variables = sc.variables]_vars


(***************************************************************************)
(* Properties of the Stage field.                                          *)
(***************************************************************************)
InstructionsOf(s) == {stages[s].Instructions[k] : k \in 1..Len(stages[s].Instructions)}

\* Every element of S.Instructions has its Stage field referring to S.
ElementsReferBack ==
    \A s \in StageRefs : \A inst \in InstructionsOf(s) : inst.Stage = s

\* C35: after any sequence of ParseInstruction and Stage.AddInstruction
\* calls, every Instruction whose Stage field refers to stage S is
\* contained in S.Instructions, and every element of S.Instructions has its
\* Stage field referring to S.
C35_BackReference ==
    /\ \A i \in 1..Len(instructions) :
          instructions[i].Stage \in StageRefs
             => instructions[i] \in InstructionsOf(instructions[i].Stage)
    /\ ElementsReferBack


(***************************************************************************)
(* Properties of the optimizer.                                            *)
(***************************************************************************)
\* Optimize has run on instructions, which are still those it was given.
Optimized == Len(delivered) > 0 /\ pc \in {"ParseDockerfile", "done"}

IsRun(insts, i) == insts[i].Command = "RUN"

\* Position i opens a maximal block of consecutive RUN instructions.
OpensBlock(insts, i) == IsRun(insts, i) /\ (i = 1 \/ ~IsRun(insts, i - 1))

\* The last position of the block that i opens.
BlockEnd(insts, i) ==
    CHOOSE e \in i..Len(insts) :
        /\ \A k \in i..e : IsRun(insts, k)
        /\ e = Len(insts) \/ ~IsRun(insts, e + 1)

\* Where the instruction at i, or the block that i opens, stands in the
\* output: one place for every block and every other instruction up to i.
PlaceOf(insts, i) ==
    Cardinality({k \in 1..i : ~IsRun(insts, k) \/ OpensBlock(insts, k)})

BlockCommands(insts, i) ==
    [k \in 1..(BlockEnd(insts, i) - i + 1) |-> Join(insts[i + k - 1].Args, " ")]

\* C36: combineRunCommands replaces each maximal block of consecutive RUN
\* instructions by one RUN whose single argument is the block's commands
\* joined with " && " in order; the output holds no two adjacent RUN
\* instructions; every other instruction is unchanged and keeps its place
\* among the others and the blocks.
C36_CombineRun ==
    Optimized =>
        LET out == result.instructions
        IN  /\ Len(out) = PlaceOf(instructions, Len(instructions))
            /\ \A i \in 1..Len(instructions) :
                  /\ ~IsRun(instructions, i) => out[PlaceOf(instructions, i)] = instructions[i]
                  /\ OpensBlock(instructions, i) =>
                        out[PlaceOf(instructions, i)] =
                            [Command |-> "RUN",
                             Args |-> <<Join(BlockCommands(instructions, i), " && ")>>]
            /\ \A j \in 1..(Len(out) - 1) : ~(IsRun(out, j) /\ IsRun(out, j + 1))

\* Two blocks of RUN instructions around another instruction were combined,
\* the last block reaching the end of the list.
C36_Witness ==
    /\ Optimized
    /\ Len(instructions) = 3
    /\ IsRun(instructions, 1)
    /\ ~IsRun(instructions, 2)
    /\ IsRun(instructions, 3)
    /\ Len(result.instructions) = 3

\* A block of two RUN instructions was combined.
BlockOfTwoCombined ==
    /\ Optimized
    /\ \E i \in 1..Len(instructions) :
          OpensBlock(instructions, i) /\ BlockEnd(instructions, i) > i

\* C37: parsing Optimize's output with ParseDockerfile and optimizing again
\* gives the same text as the first Optimize; combineRunCommands applied
\* to its own output returns it unchanged.
C37_Idempotent ==
    /\ Len(delivered) >= 2 => delivered[2] = delivered[1]
    /\ Optimized => combineRunCommands(result.instructions) = result.instructions


(***************************************************************************)
(* Properties of DockerfileParser.ParseFile.                               *)
(***************************************************************************)
ParseFileReturned == pc = "ParseFile.return" /\ result.err = NoError

\* The numbers of the physical lines that are neither blank nor comments.
InstructionLineNumbers ==
    {n \in 1..Len(ScanLines(sc.src)) :
        /\ TrimSpace(ScanLines(sc.src)[n]) # ""
        /\ ~HasPrefix(TrimSpace(ScanLines(sc.src)[n]), "#")}

\* C38: when ParseFile returns without error, every physical line that is
\* neither blank nor a comment has gone into exactly one returned
\* Instruction, nothing is left pending (continued is false, the buffer is
\* empty), also when the last line ends with a continuation backslash, and
\* each Instruction's LineNum is one of its own physical lines.
C38_NoTextLost ==
    ParseFileReturned =>
        /\ Len(delivered.lines) = Len(instructions)
        /\ \A n \in InstructionLineNumbers :
              Cardinality({k \in 1..Len(instructions) : n \in delivered.lines[k]}) = 1
        /\ ~l.continued
        /\ l.buffer = ""
        /\ \A k \in 1..Len(instructions) : instructions[k].LineNum \in delivered.lines[k]

=============================================================================
